---- MODULE Spec2Model ----
(***************************************************************************)
(* Model of the weather-data-aggregation service: the in-memory history    *)
(* store (internal/store), the aggregation function and the concurrent     *)
(* fetch orchestrator (internal/weather).                                   *)
(*                                                                         *)
(* Time is a natural number.  ZeroTime stands for Go's zero time.Time; the *)
(* clock starts after ZeroTime + MaxAgeBound so that now - maxAge is       *)
(* always later than the zero time, as it is for every real clock.         *)
(* A float64 mean sum/n is kept as the exact fraction <<sum, n>> in lowest *)
(* terms; rounding of the last bit is not modelled.                        *)
(*                                                                         *)
(* Three specifications share the variables:                               *)
(*   SpecStore  a caller of MemoryStore: SaveSnapshot, GetLatest, GetRange *)
(*              one call at a time, while the clock advances;              *)
(*   SpecAgg    AggregateReadings applied to every reading list up to      *)
(*              MaxReadings readings; the order in which Go ranges over    *)
(*              the conditionCounts map is a nondeterministic choice;      *)
(*   SpecFetch  FetchAndStore with its provider goroutines interleaved in  *)
(*              every order, each Fetch returning a reading or one of the  *)
(*              error kinds; one call is in flight at a time, the store    *)
(*              has no age cap and the clock stands still.                 *)
(***************************************************************************)
EXTENDS Integers, Sequences, FiniteSets, TLC

\* ---------------------------------------------------------------- bounds
MaxCap == 2          \* largest count cap (maxHistory) tried
MaxAgeBound == 1     \* largest age cap (maxAge) tried
MaxTicks == 1        \* how far the clock advances
MaxWrites == 3       \* SaveSnapshot calls made by the caller of the store
MaxReadings == 3     \* longest reading list given to AggregateReadings
MaxCalls == 2        \* FetchAndStore calls made, over all locations
MaxRetriesBound == 3 \* largest BackoffConfig.MaxRetries tried
MaxResCalls == 2     \* doRequestWithResilience calls made on one breaker
MaxResRetries == 2   \* largest MaxRetries of those calls
MaxRuns == 2         \* runs of the scheduled fetch job
MaxThreads == 3      \* goroutines calling the store at the same time
MaxDays == 2         \* largest days argument of GetForecast
MaxForecastReadings == 2 \* longest list a FetchForecast call returns

ZeroTime == 0
StartTime == ZeroTime + MaxAgeBound + 1
MaxTime == StartTime + MaxTicks

\* ------------------------------------------------------------ data types
ConditionUnknown == "unknown"
ConditionClear == "clear"
ConditionRain == "rain"
ConditionSnow == "snow"

\* weather.Location (City, Country) values tracked by the model
Locations ==
    { [City |-> "kyiv", Country |-> "ua"], [City |-> "oslo", Country |-> "no"] }

\* Location.Key
Key(l) == l.City \o ":" \o l.Country

RECURSIVE GCD(_, _)
GCD(a, b) == IF b = 0 THEN a ELSE GCD(b, a % b)

\* sum / n of float64 values, as an exact fraction in lowest terms
Mean(sum, n) ==
    LET g == GCD(sum, n) IN
    IF g = 0 THEN <<0, 1>> ELSE <<sum \div g, n \div g>>

\* weather.WeatherSnapshot
MkSnapshot(loc, ts, temp, hum, wind, pres, precip, cond, provs) ==
    [ Location    |-> loc,
      Timestamp   |-> ts,
      Temperature |-> temp,
      Humidity    |-> hum,
      WindSpeed   |-> wind,
      Pressure    |-> pres,
      PrecipMM    |-> precip,
      Condition   |-> cond,
      Providers   |-> provs ]

VARIABLES
    data,        \* MemoryStore.data: location key -> Snapshots of its history
    maxHistory,  \* MemoryStore.maxHistory
    maxAge,      \* MemoryStore.maxAge
    now,         \* the wall clock read by time.Now()
    written,     \* location key -> every snapshot passed to SaveSnapshot, in call order
    ret,         \* the last store operation, its arguments and what it returned
    aggIn,       \* the readings argument of an AggregateReadings call
    aggOut,      \* what that call returned, a list of at most one snapshot
    providers,   \* Service.providers, the names of the configured providers
    pc,          \* location -> where its FetchAndStore call is: idle, wait (at wg.Wait), done
    task,        \* location -> provider index -> state of that provider's goroutine
    readings,    \* location -> the readings slice of its FetchAndStore call
    fsRet,       \* location -> what its FetchAndStore call returned
    calls,       \* the number of FetchAndStore calls started
    cfg,         \* the BackoffConfig handed to doRequestWithResilience
    cb,          \* the gobreaker.CircuitBreaker of one provider
    call,        \* caller -> the doRequestWithResilience call it is making
    resCalls,    \* the number of doRequestWithResilience calls started
    backoffIn,   \* a BackoffConfig and an attempt number
    backoffOut,  \* the delay computed for them, a list of at most one duration
    interval,    \* Scheduler.interval, in seconds
    tick,        \* the clock of the scheduler, in seconds
    nextRun,     \* the instant of the next run of the scheduled job
    pass,        \* run number -> the state of that run of the job
    runs,        \* the number of runs of the job started
    days,        \* the days argument of a GetForecast call
    capable,     \* the indices of the providers that implement ForecastProvider
    fcPc,        \* where the GetForecast call is: idle, wait (at wg.Wait), done
    fcTask,      \* provider index -> state of its FetchForecast goroutine
    dayReadings, \* GetForecast's dayReadings: day key -> readings of that day
    dayTimestamps, \* GetForecast's dayTimestamps: day key -> midnight of that day
    forecast,    \* what GetForecast returned: the error and the Forecast
    request,     \* an HTTP request given to the Fiber app
    response,    \* the answer to it, a list of at most one response
    mu,          \* MemoryStore.mu: whether a writer holds it, how many readers do
    thread       \* goroutine -> the store operation it runs and how far it is

storeVars == <<data, maxHistory, maxAge, now, written, ret>>
aggVars == <<aggIn, aggOut>>
fetchVars == <<providers, pc, task, readings, fsRet, calls>>
resVars == <<cfg, cb, call, resCalls>>
backoffVars == <<backoffIn, backoffOut>>
schedVars == <<interval, tick, nextRun, pass, runs>>
forecastVars == <<days, capable, fcPc, fcTask, dayReadings, dayTimestamps, forecast>>
httpVars == <<request, response>>
lockVars == <<mu, thread>>
extraVars == <<forecastVars, httpVars, lockVars>>
otherVars == <<resVars, backoffVars, schedVars, extraVars>>
vars == <<storeVars, aggVars, fetchVars, otherVars>>

\* no AggregateReadings call has been made
AggIdle == aggIn = <<>> /\ aggOut = <<>>

\* no FetchAndStore call has been made
FetchIdle ==
    /\ pc = [l \in Locations |-> "idle"]
    /\ task = [l \in Locations |-> <<>>]
    /\ readings = [l \in Locations |-> <<>>]
    /\ fsRet = [l \in Locations |-> "none"]
    /\ calls = 0

\* no doRequestWithResilience call has been made, no breaker exists
ResIdle == cfg = <<>> /\ cb = <<>> /\ call = <<>> /\ resCalls = 0

\* no backoff delay has been computed
BackoffIdle == backoffIn = <<>> /\ backoffOut = <<>>

\* no scheduler has been started
SchedIdle == interval = 0 /\ tick = 0 /\ nextRun = 0 /\ pass = <<>> /\ runs = 0

\* no GetForecast call has been made
ForecastIdle ==
    /\ days = 0 /\ capable = {} /\ fcPc = "idle" /\ fcTask = <<>>
    /\ dayReadings = <<>> /\ dayTimestamps = <<>> /\ forecast = <<>>

\* no HTTP request has been made
HttpIdle == request = <<>> /\ response = <<>>

\* no goroutine uses the store concurrently
LockIdle == mu = <<>> /\ thread = <<>>

ExtraIdle == ForecastIdle /\ HttpIdle /\ LockIdle

OtherIdle == ResIdle /\ BackoffIdle /\ SchedIdle /\ ExtraIdle

\* -------------------------------------------------------- MemoryStore

\* history.Snapshots[over:] of the count retention
DropFirst(s, k) == SubSeq(s, k + 1, Len(s))

\* mutant of EnforceCount: the count retention keeps the oldest cap records
EnforceCount_KeepOldest(snaps, cap) ==
    IF cap > 0 /\ Len(snaps) > cap THEN SubSeq(snaps, 1, cap) ELSE snaps

\* "Enforce retention by count"
EnforceCount(snaps, cap) ==
    IF cap > 0 /\ Len(snaps) > cap
    THEN DropFirst(snaps, Len(snaps) - cap)
    ELSE snaps

\* the index at which the age loop stops, counted from position i (0-based)
RECURSIVE AgeScan(_, _, _)
AgeScan(snaps, cutoff, i) ==
    IF i < Len(snaps) /\ ~(snaps[i + 1].Timestamp >= cutoff)
    THEN AgeScan(snaps, cutoff, i + 1)
    ELSE i

\* mutant of EnforceAge: a maxAge of 0 is a cap too, every record older than
\* the clock is expired
EnforceAge_ZeroIsACap(snaps, age, t) ==
    LET cutoff == t - age
        i == AgeScan(snaps, cutoff, 0)
    IN IF i > 0 /\ i < Len(snaps) THEN DropFirst(snaps, i) ELSE snaps

\* mutant of EnforceAge: the expired records go even when all are expired
EnforceAge_AllExpiredGo(snaps, age, t) ==
    IF age > 0
    THEN LET cutoff == t - age
             i == AgeScan(snaps, cutoff, 0)
         IN IF i > 0 THEN DropFirst(snaps, i) ELSE snaps
    ELSE snaps

\* "Enforce retention by age"
EnforceAge(snaps, age, t) ==
    IF age > 0
    THEN LET cutoff == t - age
             i == AgeScan(snaps, cutoff, 0)
         IN IF i > 0 /\ i < Len(snaps) THEN DropFirst(snaps, i) ELSE snaps
    ELSE snaps

\* the Snapshots of a key, empty when the key is not in the map
HistoryOf(d, key) == IF key \in DOMAIN d THEN d[key] ELSE <<>>

\* mutant of SaveSnapshotData: the retention runs over every history of the map
SaveSnapshotData_RetainsEveryHistory(d, cap, age, t, loc, snapshot) ==
    LET key == Key(loc)
        appended == Append(HistoryOf(d, key), snapshot)
    IN [k \in DOMAIN d \cup {key} |->
          EnforceAge(EnforceCount(IF k = key THEN appended ELSE d[k], cap), age, t)]

\* the map after SaveSnapshot(loc, snapshot) at time t
SaveSnapshotData(d, cap, age, t, loc, snapshot) ==
    LET key == Key(loc)
        appended == Append(HistoryOf(d, key), snapshot)
        kept == EnforceAge(EnforceCount(appended, cap), age, t)
    IN [k \in DOMAIN d \cup {key} |-> IF k = key THEN kept ELSE d[k]]

\* mutant of GetLatestResult: the snapshot with the greatest timestamp is returned
GetLatestResult_ByTimestamp(d, loc) ==
    LET snaps == HistoryOf(d, Key(loc)) IN
    IF Key(loc) \notin DOMAIN d \/ Len(snaps) = 0
    THEN [err |-> "ErrNotFound", value |-> <<>>]
    ELSE [err |-> "nil",
          value |-> <<snaps[CHOOSE i \in 1..Len(snaps) :
                        \A j \in 1..Len(snaps) : snaps[j].Timestamp <= snaps[i].Timestamp]>>]

\* GetLatest: the snapshot returned (a list of at most one) and the error
GetLatestResult(d, loc) ==
    LET snaps == HistoryOf(d, Key(loc)) IN
    IF Key(loc) \notin DOMAIN d \/ Len(snaps) = 0
    THEN [err |-> "ErrNotFound", value |-> <<>>]
    ELSE [err |-> "nil", value |-> <<snaps[Len(snaps)]>>]

\* mutant of InRange: the upper bound is exclusive
InRange_ExclusiveTo(snap, from, to) ==
    (snap.Timestamp = from \/ snap.Timestamp > from) /\ snap.Timestamp < to

\* the condition of the filter loop of GetRange
InRange(snap, from, to) ==
    (snap.Timestamp = from \/ snap.Timestamp > from) /\
    (snap.Timestamp = to \/ snap.Timestamp < to)

RECURSIVE FilterRange(_, _, _)
FilterRange(snaps, from, to) ==
    IF snaps = <<>> THEN <<>>
    ELSE LET rest == FilterRange(Tail(snaps), from, to) IN
         IF InRange(Head(snaps), from, to) THEN <<Head(snaps)>> \o rest ELSE rest

\* mutant of GetRangeResult: an empty filter result is returned as a success
GetRangeResult_EmptyOk(d, loc, from, to) ==
    LET snaps == HistoryOf(d, Key(loc))
    IN IF Key(loc) \notin DOMAIN d \/ Len(snaps) = 0
       THEN [err |-> "ErrNotFound", value |-> <<>>]
       ELSE [err |-> "nil", value |-> FilterRange(snaps, from, to)]

\* GetRange: the snapshots returned and the error
GetRangeResult(d, loc, from, to) ==
    LET snaps == HistoryOf(d, Key(loc))
        result == FilterRange(snaps, from, to)
    IN IF Key(loc) \notin DOMAIN d \/ Len(snaps) = 0
       THEN [err |-> "ErrNotFound", value |-> <<>>]
       ELSE IF Len(result) = 0
            THEN [err |-> "ErrNotFound", value |-> <<>>]
            ELSE [err |-> "nil", value |-> result]

Keys == { Key(l) : l \in Locations }

\* the number of SaveSnapshot calls made so far, over the keys in S
RECURSIVE WritesTo(_)
WritesTo(S) ==
    IF S = {} THEN 0
    ELSE LET k == CHOOSE k \in S : TRUE IN Len(written[k]) + WritesTo(S \ {k})

TotalWrites == WritesTo(Keys)

\* an empty store without caps that no caller uses
StoreIdle ==
    /\ data = <<>>
    /\ maxHistory = 0
    /\ maxAge = 0
    /\ now = StartTime
    /\ written = [k \in Keys |-> <<>>]
    /\ ret = [op |-> "none"]

\* NewMemoryStore
StoreInit ==
    /\ data = <<>>
    /\ maxHistory \in 0..MaxCap
    /\ maxAge \in 0..MaxAgeBound
    /\ now = StartTime
    /\ written = [k \in Keys |-> <<>>]
    /\ ret = [op |-> "none"]
    /\ AggIdle
    /\ providers = <<>>
    /\ FetchIdle
    /\ OtherIdle

\* the clock advances
Tick ==
    /\ ret.op = "none"
    /\ now < MaxTime
    /\ now' = now + 1
    /\ ret' = ret
    /\ UNCHANGED <<data, maxHistory, maxAge, written, aggVars, fetchVars, otherVars>>

\* a caller's SaveSnapshot(loc, snapshot); the snapshot carries the number of
\* the write as its temperature, so that written records can be told apart
SaveSnapshot(loc, ts) ==
    LET snapshot == MkSnapshot(loc, ts, <<TotalWrites, 1>>, <<0, 1>>, <<0, 1>>,
                               <<0, 1>>, <<0, 1>>, ConditionClear, <<>>)
    IN /\ ret.op = "none"
       /\ TotalWrites < MaxWrites
       /\ data' = SaveSnapshotData(data, maxHistory, maxAge, now, loc, snapshot)
       /\ written' = [written EXCEPT ![Key(loc)] = Append(@, snapshot)]
       /\ ret' = [op |-> "SaveSnapshot", loc |-> loc, snapshot |-> snapshot]
       /\ UNCHANGED <<maxHistory, maxAge, now, aggVars, fetchVars, otherVars>>

GetLatest(loc) ==
    /\ ret.op = "none"
    /\ ret' = [op |-> "GetLatest", loc |-> loc] @@ GetLatestResult(data, loc)
    /\ UNCHANGED <<data, maxHistory, maxAge, now, written, aggVars, fetchVars, otherVars>>

GetRange(loc, from, to) ==
    /\ ret.op = "none"
    /\ ret' = [op |-> "GetRange", loc |-> loc, from |-> from, to |-> to]
                 @@ GetRangeResult(data, loc, from, to)
    /\ UNCHANGED <<data, maxHistory, maxAge, now, written, aggVars, fetchVars, otherVars>>

\* the caller takes the result of its store call and may call again
Return ==
    /\ ret.op # "none"
    /\ ret' = [op |-> "none"]
    /\ UNCHANGED <<data, maxHistory, maxAge, now, written, aggVars, fetchVars, otherVars>>

\* timestamps a caller uses at time t, for a record it writes or a range bound
\* it asks for: one already expired, one exactly at the age cutoff, and t itself
WriteTimes(t, age) == {t - age - 1, t - age, t}

StoreNext ==
    \/ Tick
    \/ Return
    \/ \E loc \in Locations, ts \in WriteTimes(now, maxAge) : SaveSnapshot(loc, ts)
    \/ \E loc \in Locations : GetLatest(loc)
    \/ \E loc \in Locations, from \in WriteTimes(now, maxAge), to \in WriteTimes(now, maxAge) :
          GetRange(loc, from, to)

SpecStore == StoreInit /\ [][StoreNext]_vars

\* ------------------------------------------------------- Location.Key

\* locations as a request or the configuration can name them: City and
\* Country are free texts
Places ==
    { [City |-> c, Country |-> k] : c \in {"a", "a:b"}, k \in {"c", "b:c"} }

\* the number of records in the store
RECURSIVE Stored(_, _)
Stored(d, S) ==
    IF S = {} THEN 0
    ELSE LET k == CHOOSE k \in S : TRUE IN Len(d[k]) + Stored(d, S \ {k})

KeyInit ==
    /\ data = <<>>
    /\ maxHistory = 0
    /\ maxAge = 0
    /\ now = StartTime
    /\ written = [k \in Keys |-> <<>>]
    /\ ret = [op |-> "none"]
    /\ AggIdle
    /\ providers = <<>>
    /\ FetchIdle
    /\ OtherIdle

\* SaveSnapshot(l, snapshot) with a snapshot aggregated for l
PlaceSave(l) ==
    LET snapshot == MkSnapshot(l, now, <<0, 1>>, <<0, 1>>, <<0, 1>>, <<0, 1>>,
                               <<0, 1>>, ConditionClear, <<>>)
    IN /\ ret.op = "none"
       /\ Stored(data, DOMAIN data) < MaxWrites
       /\ data' = SaveSnapshotData(data, maxHistory, maxAge, now, l, snapshot)
       /\ ret' = [op |-> "SaveSnapshot", loc |-> l, snapshot |-> snapshot]
       /\ UNCHANGED <<maxHistory, maxAge, now, written, aggVars, fetchVars, otherVars>>

KeyNext ==
    \/ Return
    \/ \E l \in Places : PlaceSave(l)
    \/ \E l \in Places : GetLatest(l)
    \/ \E l \in Places : GetRange(l, ZeroTime, MaxTime)

SpecKey == KeyInit /\ [][KeyNext]_vars

\* --------------------------------------------------- AggregateReadings

ProviderNames == <<"openweather", "weatherapi", "openmeteo">>

\* weather.ProviderReading
MkReading(name, ts, temp, hum, wind, pres, precip, cond) ==
    [ ProviderName |-> name,
      Timestamp    |-> ts,
      TemperatureC |-> temp,
      HumidityPct  |-> hum,
      WindSpeedMS  |-> wind,
      PressureHpa  |-> pres,
      PrecipMm     |-> precip,
      Condition    |-> cond ]

\* a reading as each provider fills it; openmeteo fills temperature and wind only
ReadingOf(name, ts, cond) ==
    IF name = "openweather" THEN MkReading(name, ts, 10, 40, 3, 1000, 0, cond)
    ELSE IF name = "weatherapi" THEN MkReading(name, ts, 20, 70, 6, 1013, 2, cond)
    ELSE MkReading(name, ts, 30, 0, 9, 0, 0, cond)

Range(f) == { f[i] : i \in DOMAIN f }

\* the orders in which a range over a Go map with key set S can yield its keys
IterationOrders(S) ==
    { f \in [1..Cardinality(S) -> S] : \A i, j \in DOMAIN f : f[i] = f[j] => i = j }

\* conditionCounts after the loop over the readings
ConditionCounts(rs) ==
    [ c \in { rs[i].Condition : i \in DOMAIN rs } |->
        Cardinality({ i \in DOMAIN rs : rs[i].Condition = c }) ]

\* "Pick majority condition": the loop over conditionCounts, from the i-th key
\* of the iteration order on
RECURSIVE PickCondition(_, _, _, _, _)
PickCondition(counts, order, i, bestCond, bestCount) ==
    IF i > Len(order) THEN bestCond
    ELSE IF counts[order[i]] > bestCount
         THEN PickCondition(counts, order, i + 1, order[i], counts[order[i]])
         ELSE PickCondition(counts, order, i + 1, bestCond, bestCount)

\* mutant of NewestTS: the timestamp of the last reading is taken
NewestTS_LastReading(rs, newest) ==
    IF rs = <<>> THEN newest ELSE rs[Len(rs)].Timestamp

\* newestTS after the loop over the readings
RECURSIVE NewestTS(_, _)
NewestTS(rs, newest) ==
    IF rs = <<>> THEN newest
    ELSE NewestTS(Tail(rs),
                  IF Head(rs).Timestamp > newest
                  THEN Head(rs).Timestamp ELSE newest)

\* the sum of the temperatures, whatever field is asked for
RECURSIVE SumField_TemperatureOnly(_, _)
SumField_TemperatureOnly(rs, field) ==
    IF rs = <<>> THEN 0
    ELSE Head(rs).TemperatureC + SumField_TemperatureOnly(Tail(rs), field)

\* the sum of one field over the readings
RECURSIVE SumField(_, _)
SumField(rs, field) ==
    IF rs = <<>> THEN 0
    ELSE Head(rs)[field] + SumField(Tail(rs), field)

\* mutant of Contributions: the contributors are listed newest reading first
Contributions_Reversed(rs) ==
    [ i \in 1..Len(rs) |->
        [ProviderName |-> rs[Len(rs) + 1 - i].ProviderName,
         Timestamp |-> rs[Len(rs) + 1 - i].Timestamp] ]

\* the providers slice built by the loop
Contributions(rs) ==
    [ i \in 1..Len(rs) |->
        [ProviderName |-> rs[i].ProviderName, Timestamp |-> rs[i].Timestamp] ]

\* mutant of EmptyAggregate: the placeholder keeps the zero timestamp
EmptyAggregate_ZeroTimestamp(loc, t) ==
    MkSnapshot(loc, ZeroTime, Mean(0, 1), Mean(0, 1), Mean(0, 1), Mean(0, 1),
               Mean(0, 1), ConditionUnknown, <<>>)

\* the snapshot returned for len(readings) == 0 when time.Now() is t: the
\* fields the literal does not name have their zero values
EmptyAggregate(loc, t) ==
    MkSnapshot(loc, t, Mean(0, 1), Mean(0, 1), Mean(0, 1), Mean(0, 1),
               Mean(0, 1), ConditionUnknown, <<>>)

\* AggregateReadings(loc, readings) when the map yields its keys in the given
\* order and time.Now() is t
AggregateReadings(loc, rs, order, t) ==
    IF Len(rs) = 0
    THEN EmptyAggregate(loc, t)
    ELSE LET n == Len(rs)
             newestTS == NewestTS(rs, ZeroTime)
         IN MkSnapshot(loc,
                       IF newestTS = ZeroTime THEN t ELSE newestTS,
                       Mean(SumField(rs, "TemperatureC"), n),
                       Mean(SumField(rs, "HumidityPct"), n),
                       Mean(SumField(rs, "WindSpeedMS"), n),
                       Mean(SumField(rs, "PressureHpa"), n),
                       Mean(SumField(rs, "PrecipMm"), n),
                       PickCondition(ConditionCounts(rs), order, 1,
                                     ConditionUnknown, 0),
                       Contributions(rs))

\* every snapshot AggregateReadings(loc, readings) can return at time t
AggregateResults(loc, rs, t) ==
    { AggregateReadings(loc, rs, order, t) :
        order \in IterationOrders(DOMAIN ConditionCounts(rs)) }

AggLocation == CHOOSE l \in Locations : l.City = "kyiv"

\* the readings handed to AggregateReadings: of a provider that reports
\* every field and of one that reports no humidity and no pressure
ReadingInputs ==
    { ReadingOf(name, ts, cond) :
        name \in {"openweather", "openmeteo"},
        ts \in {ZeroTime, StartTime - 1, StartTime},
        cond \in {ConditionClear, ConditionRain, ConditionSnow} }

SeqsUpTo(S, n) == UNION { [1..k -> S] : k \in 0..n }

AggInit ==
    /\ aggIn \in SeqsUpTo(ReadingInputs, MaxReadings)
    /\ aggOut = <<>>
    /\ data = <<>>
    /\ maxHistory = 0
    /\ maxAge = 0
    /\ now = StartTime
    /\ written = [k \in Keys |-> <<>>]
    /\ ret = [op |-> "none"]
    /\ providers = <<>>
    /\ FetchIdle
    /\ OtherIdle

\* one call AggregateReadings(loc, aggIn)
Aggregate ==
    /\ aggOut = <<>>
    /\ \E snapshot \in AggregateResults(AggLocation, aggIn, now) :
          aggOut' = <<snapshot>>
    /\ UNCHANGED <<aggIn, storeVars, fetchVars, otherVars>>

AggNext == Aggregate

SpecAgg == AggInit /\ [][AggNext]_vars

\* a second call AggregateReadings(loc, aggIn) with the same arguments
AggregateAgain ==
    /\ Len(aggOut) = 1
    /\ \E snapshot \in AggregateResults(AggLocation, aggIn, now) :
          aggOut' = Append(aggOut, snapshot)
    /\ UNCHANGED <<aggIn, storeVars, fetchVars, otherVars>>

\* a caller that aggregates the same list twice while the clock runs
AggTwiceNext == Aggregate \/ AggregateAgain \/ Tick

SpecAggTwice == AggInit /\ [][AggTwiceNext]_vars

\* ------------------------------------------------ Service.FetchAndStore

\* the errors a provider's Fetch can return: a retryable remote failure, a
\* rejected request, an open circuit breaker, a cancelled or expired context
FetchErrors == {"errServerError", "errUnexpected", "errCircuitOpen", "ctxErr"}

\* the reading a provider's Fetch returns at time t when it succeeds: openweather
\* and weatherapi report clear weather observed at t, openmeteo reports rain
\* and no observation time
FetchedReading(name, t) ==
    IF name = "openmeteo" THEN ReadingOf(name, ZeroTime, ConditionRain)
    ELSE ReadingOf(name, t, ConditionClear)

\* what p.Fetch(ctx, loc) can return at time t: the provider's reading, or an
\* error
FetchOutcomes(name, t) ==
    { [err |-> "nil", r |-> <<FetchedReading(name, t)>>] }
    \cup { [err |-> e, r |-> <<>>] : e \in FetchErrors }

\* mutant of NoProviders: the check for an empty provider list is missing
NoProviders_Never(provs) == FALSE

\* len(s.providers) == 0
NoProviders(provs) == Len(provs) = 0

\* the goroutines started by the loop over s.providers
StartTasks(provs) == [i \in 1..Len(provs) |-> [st |-> "fetching", err |-> "nil"]]

\* mutant of TaskReturned: a failing goroutine cancels the goroutines still fetching
TaskReturned_CancelSiblings(tasks, i, e) ==
    [j \in DOMAIN tasks |->
        IF j = i THEN [st |-> "done", err |-> e]
        ELSE IF e # "nil" /\ tasks[j].st = "fetching"
             THEN [st |-> "done", err |-> "ctxErr"]
             ELSE tasks[j]]

\* the goroutines of a call after p.Fetch of the i-th returned with error e (or
\* nil) and that goroutine finished
TaskReturned(tasks, i, e) == [tasks EXCEPT ![i] = [st |-> "done", err |-> e]]

\* mutant of AppendReading: the goroutine does not return on an error and
\* appends the zero ProviderReading that came with it
AppendReading_OnError(rs, out) ==
    IF out.err # "nil"
    THEN Append(rs, MkReading("", ZeroTime, 0, 0, 0, 0, 0, ""))
    ELSE Append(rs, out.r[1])

\* the readings slice after a goroutine got outcome out: a reading is appended
\* only when err == nil
AppendReading(rs, out) == IF out.err # "nil" THEN rs ELSE Append(rs, out.r[1])

\* mutant of StoreAfterJoin: the snapshot is saved even without readings
StoreAfterJoin_AlwaysSave(d, cap, age, t, loc, rs, snapshot) ==
    SaveSnapshotData(d, cap, age, t, loc, snapshot)

\* mutant of StoreAfterJoin: the snapshot is saved for every tracked location
StoreAfterJoin_EveryLocation(d, cap, age, t, loc, rs, snapshot) ==
    IF Len(rs) = 0 THEN d
    ELSE LET other == CHOOSE l \in Locations : l # loc
         IN SaveSnapshotData(SaveSnapshotData(d, cap, age, t, loc, snapshot),
                             cap, age, t, other, snapshot)

\* the store after wg.Wait: nothing is saved when no reading was collected
StoreAfterJoin(d, cap, age, t, loc, rs, snapshot) ==
    IF Len(rs) = 0 THEN d ELSE SaveSnapshotData(d, cap, age, t, loc, snapshot)

\* the error FetchAndStore returns after wg.Wait
ReturnAfterJoin(tasks, rs) == "nil"

\* mutant of WaitReturns: wg.Wait returns as soon as one goroutine is done
WaitReturns_FirstDone(tasks) == \E i \in DOMAIN tasks : tasks[i].st = "done"

\* wg.Wait returns when every goroutine has called wg.Done
WaitReturns(tasks) == \A i \in DOMAIN tasks : tasks[i].st = "done"

FetchInit ==
    /\ data = <<>>
    /\ maxHistory \in 0..1
    /\ maxAge = 0
    /\ now = StartTime
    /\ written = [k \in Keys |-> <<>>]
    /\ ret = [op |-> "none"]
    /\ AggIdle
    /\ providers \in { SubSeq(ProviderNames, 1, k) : k \in 0..Len(ProviderNames) }
    /\ FetchIdle
    /\ OtherIdle

\* FetchAndStore(ctx, loc) is called: it returns at once without providers,
\* and otherwise starts one goroutine per provider.  One call is in flight at
\* a time.
Call(loc) ==
    /\ \A l \in Locations : pc[l] = "idle"
    /\ calls < MaxCalls
    /\ calls' = calls + 1
    /\ readings' = [readings EXCEPT ![loc] = <<>>]
    /\ IF NoProviders(providers)
       THEN /\ pc' = [pc EXCEPT ![loc] = "done"]
            /\ fsRet' = [fsRet EXCEPT ![loc] = "no weather providers configured"]
            /\ task' = [task EXCEPT ![loc] = <<>>]
       ELSE /\ pc' = [pc EXCEPT ![loc] = "wait"]
            /\ fsRet' = [fsRet EXCEPT ![loc] = "none"]
            /\ task' = [task EXCEPT ![loc] = StartTasks(providers)]
    /\ UNCHANGED <<storeVars, aggVars, providers, otherVars>>

\* p.Fetch of the i-th provider returns in its goroutine: on an error the
\* goroutine returns, otherwise it appends the reading under mu; wg.Done runs
FetchReturns(loc, i) ==
    /\ i \in DOMAIN task[loc]
    /\ task[loc][i].st = "fetching"
    /\ \E out \in FetchOutcomes(providers[i], now) :
          /\ task' = [task EXCEPT ![loc] = TaskReturned(@, i, out.err)]
          /\ readings' = [readings EXCEPT ![loc] = AppendReading(@, out)]
    /\ UNCHANGED <<storeVars, aggVars, providers, pc, fsRet, calls, otherVars>>

\* wg.Wait returns: the readings are aggregated and the snapshot is saved
Join(loc) ==
    /\ pc[loc] = "wait"
    /\ WaitReturns(task[loc])
    /\ \E agg \in AggregateResults(loc, readings[loc], now) :
          LET snapshot == IF agg.Timestamp = ZeroTime
                          THEN [agg EXCEPT !.Timestamp = now] ELSE agg
          IN /\ data' = StoreAfterJoin(data, maxHistory, maxAge, now, loc,
                                       readings[loc], snapshot)
             /\ written' = IF data' = data /\ Len(readings[loc]) = 0 THEN written
                           ELSE [written EXCEPT ![Key(loc)] = Append(@, snapshot)]
    /\ pc' = [pc EXCEPT ![loc] = "done"]
    /\ fsRet' = [fsRet EXCEPT ![loc] = ReturnAfterJoin(task[loc], readings[loc])]
    /\ UNCHANGED <<maxHistory, maxAge, now, ret, aggVars, providers, task, readings, calls, otherVars>>

\* the caller has the result of FetchAndStore; the locals of the call are gone
FetchAndStoreReturns(loc) ==
    /\ pc[loc] = "done"
    /\ pc' = [pc EXCEPT ![loc] = "idle"]
    /\ task' = [task EXCEPT ![loc] = <<>>]
    /\ readings' = [readings EXCEPT ![loc] = <<>>]
    /\ fsRet' = [fsRet EXCEPT ![loc] = "none"]
    /\ UNCHANGED <<storeVars, aggVars, providers, calls, otherVars>>

FetchNext ==
    \/ \E loc \in Locations : Call(loc)
    \/ \E loc \in Locations, i \in DOMAIN ProviderNames : FetchReturns(loc, i)
    \/ \E loc \in Locations : Join(loc)
    \/ \E loc \in Locations : FetchAndStoreReturns(loc)

SpecFetch == FetchInit /\ [][FetchNext]_vars

\* ------------------------------------------------- Service.GetForecast

\* An instant of a forecast is a number of hours since the zero time,
\* 0001-01-01 00:00 UTC, in a calendar whose months all have 31 days; the
\* instants used keep their order, year, month, day and hour.
HoursPerDay == 24
DaysPerMonth == 31
MonthsPerYear == 12

\* time.Date(y, m, d, h, 0, 0, 0, time.UTC)
Date(y, m, d, h) ==
    (((y - 1) * MonthsPerYear + (m - 1)) * DaysPerMonth + (d - 1)) * HoursPerDay + h

\* ts.Year(), ts.Month(), ts.Day()
Year(t) == (t \div (HoursPerDay * DaysPerMonth * MonthsPerYear)) + 1
Month(t) == ((t \div (HoursPerDay * DaysPerMonth)) % MonthsPerYear) + 1
Day(t) == ((t \div HoursPerDay) % DaysPerMonth) + 1

\* the decimal digits of n as character codes, with leading zeros up to width
Digits(n, width) == [i \in 1..width |-> 48 + ((n \div (10 ^ (width - i))) % 10)]

\* ts.Format("2006-01-02") as a string of character codes, for years of four
\* digits
FormatDate(t) ==
    Digits(Year(t), 4) \o <<45>> \o Digits(Month(t), 2) \o <<45>> \o Digits(Day(t), 2)

\* a < b on Go strings: the order of sort.Strings
StringLess(a, b) ==
    \E i \in 1..(Len(a) + 1) :
        /\ \A j \in 1..(i - 1) : j <= Len(b) /\ a[j] = b[j]
        /\ IF i > Len(a) THEN i <= Len(b) ELSE i <= Len(b) /\ a[i] < b[i]

\* sort.Strings(keys) for the keys of a map
SortStrings(S) ==
    CHOOSE f \in [1..Cardinality(S) -> S] :
        \A i, j \in DOMAIN f : i < j => StringLess(f[i], f[j])

\* the instants forecast readings are given for: three days in two years,
\* one of them with two readings a day
ForecastTimes ==
    { Date(2024, 2, 28, 12), Date(2024, 12, 1, 0), Date(2024, 12, 1, 12),
      Date(2025, 1, 1, 0) }

\* the reading a provider forecasts for an instant: openweather forecasts
\* clear weather, every other provider rain
ForecastReading(name, t) ==
    ReadingOf(name, t, IF name = "openweather" THEN ConditionClear ELSE ConditionRain)

\* what fp.FetchForecast(ctx, loc, days) can return: an error, or a list of
\* readings, possibly empty
ForecastOutcomes(name) ==
    { [err |-> e, rs |-> <<>>] : e \in {"errServerError", "ctxErr"} }
    \cup { [err |-> "nil", rs |-> rs] :
             rs \in SeqsUpTo({ ForecastReading(name, t) : t \in ForecastTimes },
                             MaxForecastReadings) }

\* dayReadings after the loop over the readings of one provider
RECURSIVE AddReadings(_, _)
AddReadings(dr, rs) ==
    IF rs = <<>> THEN dr
    ELSE LET k == FormatDate(Head(rs).Timestamp)
             old == IF k \in DOMAIN dr THEN dr[k] ELSE <<>>
         IN AddReadings([x \in DOMAIN dr \cup {k} |->
                            IF x = k THEN Append(old, Head(rs)) ELSE dr[x]],
                        Tail(rs))

\* dayTimestamps after the loop over the readings of one provider
RECURSIVE AddTimestamps(_, _)
AddTimestamps(dt, rs) ==
    IF rs = <<>> THEN dt
    ELSE LET ts == Head(rs).Timestamp
             k == FormatDate(ts)
         IN AddTimestamps([x \in DOMAIN dt \cup {k} |->
                              IF x \in DOMAIN dt THEN dt[x]
                              ELSE Date(Year(ts), Month(ts), Day(ts), 0)],
                          Tail(rs))

\* mutant of InvalidDays: only a negative number of days is refused
InvalidDays_NegativeOnly(d) == d < 0

\* days <= 0
InvalidDays(d) == d <= 0

\* len(dayReadings) == 0
NoForecastData(dr) == Cardinality(DOMAIN dr) = 0

\* mutant of ForecastFull: the loop stops one record late
ForecastFull_OneLate(fc, n) == Len(fc) > n

\* len(forecast) >= days
ForecastFull(fc, n) == Len(fc) >= n

\* the loop over the sorted keys from the i-th key on: every Forecast it can
\* build, AggregateReadings being called once for each day taken
RECURSIVE ForecastLoop(_, _, _, _, _, _, _, _)
ForecastLoop(loc, keys, i, fc, n, dr, dt, t) ==
    IF i > Len(keys) \/ ForecastFull(fc, n) THEN {fc}
    ELSE IF Len(dr[keys[i]]) = 0 THEN ForecastLoop(loc, keys, i + 1, fc, n, dr, dt, t)
    ELSE UNION { ForecastLoop(loc, keys, i + 1,
                              Append(fc, IF keys[i] \in DOMAIN dt
                                         THEN [snapshot EXCEPT !.Timestamp = dt[keys[i]]]
                                         ELSE snapshot),
                              n, dr, dt, t) :
                   snapshot \in AggregateResults(loc, dr[keys[i]], t) }

\* what GetForecast returns after wg.Wait
ForecastResults(loc, n, dr, dt, t) ==
    IF NoForecastData(dr)
    THEN { [err |-> "no forecast data available", value |-> <<>>] }
    ELSE { IF Len(fc) = 0
           THEN [err |-> "no forecast data available", value |-> <<>>]
           ELSE [err |-> "nil", value |-> fc] :
             fc \in ForecastLoop(loc, SortStrings(DOMAIN dr), 1, <<>>, n, dr, dt, t) }

\* a service whose first two providers may implement ForecastProvider; the
\* third, openmeteo, does not
ForecastInit ==
    /\ days = 0
    /\ capable \in SUBSET {1, 2}
    /\ fcPc = "idle"
    /\ fcTask = <<>>
    /\ dayReadings = <<>>
    /\ dayTimestamps = <<>>
    /\ forecast = <<>>
    /\ StoreIdle
    /\ AggIdle
    /\ providers = ProviderNames
    /\ FetchIdle
    /\ ResIdle
    /\ BackoffIdle
    /\ SchedIdle
    /\ HttpIdle
    /\ LockIdle

\* GetForecast(loc, d) is called: it returns at once for d <= 0, and
\* otherwise starts one goroutine per provider that implements
\* ForecastProvider
GetForecast(d) ==
    /\ fcPc = "idle"
    /\ days' = d
    /\ IF InvalidDays(d)
       THEN /\ fcPc' = "done"
            /\ fcTask' = <<>>
            /\ forecast' = [err |-> "days must be greater than zero", value |-> <<>>]
       ELSE /\ fcPc' = "wait"
            /\ fcTask' = [i \in capable |-> [st |-> "fetching", err |-> "nil", rs |-> <<>>]]
            /\ forecast' = <<>>
    /\ UNCHANGED <<capable, dayReadings, dayTimestamps, storeVars, aggVars, fetchVars,
                   resVars, backoffVars, schedVars, httpVars, lockVars>>

\* fp.FetchForecast of the i-th provider returns in its goroutine: on an
\* error or an empty list the goroutine returns, otherwise it files the
\* readings under their days, holding mu
ForecastReturns(i, out) ==
    /\ i \in DOMAIN fcTask
    /\ fcTask[i].st = "fetching"
    /\ out \in ForecastOutcomes(providers[i])
    /\ fcTask' = [fcTask EXCEPT ![i] = [st |-> "done", err |-> out.err, rs |-> out.rs]]
    /\ IF out.err # "nil" \/ Len(out.rs) = 0
       THEN UNCHANGED <<dayReadings, dayTimestamps>>
       ELSE /\ dayReadings' = AddReadings(dayReadings, out.rs)
            /\ dayTimestamps' = AddTimestamps(dayTimestamps, out.rs)
    /\ UNCHANGED <<days, capable, fcPc, forecast, storeVars, aggVars, fetchVars,
                   resVars, backoffVars, schedVars, httpVars, lockVars>>

\* wg.Wait returns: the days are sorted, the first of them aggregated and
\* the Forecast or the error returned
ForecastJoin ==
    /\ fcPc = "wait"
    /\ WaitReturns(fcTask)
    /\ fcPc' = "done"
    /\ forecast' \in ForecastResults(AggLocation, days, dayReadings, dayTimestamps, now)
    /\ UNCHANGED <<days, capable, fcTask, dayReadings, dayTimestamps, storeVars, aggVars,
                   fetchVars, resVars, backoffVars, schedVars, httpVars, lockVars>>

ForecastNext ==
    \/ \E d \in (0 - 1)..MaxDays : GetForecast(d)
    \/ \E i \in DOMAIN ProviderNames, name \in Range(ProviderNames) :
          \E out \in ForecastOutcomes(name) : ForecastReturns(i, out)
    \/ ForecastJoin

SpecForecast == ForecastInit /\ [][ForecastNext]_vars

\* --------------------------------------------- the service and its store

\* A Service over a store with bounds, used by one caller that writes,
\* reads and asks for forecasts; openweather is the forecast provider.

FrameInit ==
    /\ data = <<>>
    /\ maxHistory \in 0..1
    /\ maxAge \in 0..MaxAgeBound
    /\ now = StartTime
    /\ written = [k \in Keys |-> <<>>]
    /\ ret = [op |-> "none"]
    /\ AggIdle
    /\ providers = ProviderNames
    /\ FetchIdle
    /\ ResIdle
    /\ BackoffIdle
    /\ SchedIdle
    /\ days = 0
    /\ capable = {1}
    /\ fcPc = "idle"
    /\ fcTask = <<>>
    /\ dayReadings = <<>>
    /\ dayTimestamps = <<>>
    /\ forecast = <<>>
    /\ HttpIdle
    /\ LockIdle

\* the forecasts the provider returns here: an error, or at most one reading
ShortForecasts(name) == { o \in ForecastOutcomes(name) : Len(o.rs) <= 1 }

\* the caller has the result of GetForecast; the locals of the call are gone
ForecastTaken ==
    /\ fcPc = "done"
    /\ days' = 0
    /\ fcPc' = "idle"
    /\ fcTask' = <<>>
    /\ dayReadings' = <<>>
    /\ dayTimestamps' = <<>>
    /\ forecast' = <<>>
    /\ UNCHANGED <<capable, storeVars, aggVars, fetchVars, resVars, backoffVars,
                   schedVars, httpVars, lockVars>>

\* the caller makes one call at a time
FrameNext ==
    \/ fcPc = "idle" /\ Tick
    \/ fcPc = "idle" /\ Return
    \/ \E loc \in Locations, ts \in {now - maxAge, now} :
          fcPc = "idle" /\ SaveSnapshot(loc, ts)
    \/ \E loc \in Locations : fcPc = "idle" /\ GetLatest(loc)
    \/ \E loc \in Locations : fcPc = "idle" /\ GetRange(loc, ZeroTime, MaxTime)
    \/ \E d \in 0..1 : ret.op = "none" /\ GetForecast(d)
    \/ \E i \in capable : \E out \in ShortForecasts(providers[i]) : ForecastReturns(i, out)
    \/ ForecastJoin
    \/ ForecastTaken

SpecFrame == FrameInit /\ [][FrameNext]_vars

\* ------------------------------------------------------ RegisterRoutes

StatusOK == 200
StatusBadRequest == 400
StatusNotFound == 404

CurrentPath == "/api/v1/weather/current"
HistoryPath == "/api/v1/weather/history"
ForecastPath == "/api/v1/weather/forecast"

\* the decimal numerals of one digit; a query parameter is a string, the
\* empty string when the parameter is absent
Numerals == <<"0", "1", "2", "3", "4", "5", "6", "7", "8", "9">>

\* strconv.ParseInt(s, 10, 64) on those strings
ParseInt(s) ==
    IF \E i \in DOMAIN Numerals : Numerals[i] = s
    THEN [ok |-> TRUE, n |-> (CHOOSE i \in DOMAIN Numerals : Numerals[i] = s) - 1]
    ELSE [ok |-> FALSE, n |-> 0]

\* parseLocationQuery: City and Country are required
parseLocationQuery(req) ==
    IF req.city = "" \/ req.country = ""
    THEN [ok |-> FALSE, loc |-> [City |-> "", Country |-> ""]]
    ELSE [ok |-> TRUE, loc |-> [City |-> req.city, Country |-> req.country]]

\* parseTime for a text of Unix seconds; the text n stands for the instant n
\* of the model
parseTime(s) == ParseInt(s)

\* the handler of GET /weather/current
CurrentHandler(req, d) ==
    LET q == parseLocationQuery(req)
        latest == GetLatestResult(d, q.loc)
    IN IF ~q.ok THEN [status |-> StatusBadRequest, body |-> <<>>]
       ELSE IF latest.err # "nil" THEN [status |-> StatusNotFound, body |-> <<>>]
       ELSE [status |-> StatusOK, body |-> latest.value]

\* the handler of GET /weather/history: bind, validate.Struct, GetRange
HistoryHandler(req, d) ==
    LET q == parseLocationQuery(req)
        from == parseTime(req.from)
        to == parseTime(req.to)
        range == GetRangeResult(d, q.loc, from.n, to.n)
    IN IF ~q.ok \/ req.from = "" \/ req.to = "" \/ ~from.ok \/ ~to.ok
       THEN [status |-> StatusBadRequest, body |-> <<>>]
       ELSE IF from.n = ZeroTime \/ to.n = ZeroTime \/ to.n < from.n
       THEN [status |-> StatusBadRequest, body |-> <<>>]
       ELSE IF range.err # "nil" THEN [status |-> StatusNotFound, body |-> <<>>]
       ELSE [status |-> StatusOK, body |-> range.value]

\* the Fiber app after RegisterRoutes: the two registered routes, and Fiber's
\* 404 answer for a path without a route
Route(req, d) ==
    IF req.path = CurrentPath THEN CurrentHandler(req, d)
    ELSE IF req.path = HistoryPath THEN HistoryHandler(req, d)
    ELSE [status |-> StatusNotFound, body |-> <<>>]

\* the GET requests made: each path, with and without city, country, days,
\* from and to, with values in and out of their ranges
Requests ==
    [ path : {CurrentPath, HistoryPath, ForecastPath},
      city : {"", AggLocation.City},
      country : {"", AggLocation.Country},
      days : {"", "x", "0", "1", "7", "8"},
      from : {"", "x", Numerals[StartTime], Numerals[StartTime + 1]},
      to : {"", "x", Numerals[StartTime], Numerals[StartTime + 1]} ]

\* the record stored for the location, if any
StoredSnapshot ==
    MkSnapshot(AggLocation, StartTime, <<10, 1>>, <<40, 1>>, <<3, 1>>, <<1000, 1>>,
               <<0, 1>>, ConditionClear, <<>>)

\* the app is set up on a store that is empty or holds one record
HttpInit ==
    /\ request = <<>>
    /\ response = <<>>
    /\ maxHistory = 0
    /\ maxAge = 0
    /\ now = StartTime
    /\ ret = [op |-> "none"]
    /\ \E n \in 0..1 :
          /\ written = [k \in Keys |->
                          IF n = 1 /\ k = Key(AggLocation) THEN <<StoredSnapshot>> ELSE <<>>]
          /\ data = IF n = 1
                    THEN SaveSnapshotData(<<>>, 0, 0, StartTime, AggLocation, StoredSnapshot)
                    ELSE <<>>
    /\ AggIdle
    /\ providers = <<>>
    /\ FetchIdle
    /\ ResIdle
    /\ BackoffIdle
    /\ SchedIdle
    /\ ForecastIdle
    /\ LockIdle

\* the app answers a request
Handle(req) ==
    /\ response = <<>>
    /\ request' = req
    /\ response' = <<Route(req, data)>>
    /\ UNCHANGED <<storeVars, aggVars, fetchVars, resVars, backoffVars, schedVars,
                   forecastVars, lockVars>>

HttpNext == \E req \in Requests : Handle(req)

SpecHttp == HttpInit /\ [][HttpNext]_vars

\* ------------------------------------------------------ MemoryStore.mu

\* goroutines that call the store at the same time, for one location
Threads == 1..MaxThreads

StoreOps == {"SaveSnapshot", "GetLatest", "GetRange"}

\* a goroutine that has not called the store
NoOp == [pc |-> "idle", op |-> "none", local |-> <<>>, result |-> <<>>]

\* mutant of CanLock: Lock does not wait for anyone
CanLock_Always(m) == TRUE

\* s.mu.Lock() returns: no writer and no reader holds the mutex
CanLock(m) == ~m.writer /\ m.readers = 0

\* s.mu.RLock() returns: no writer holds the mutex
CanRLock(m) == ~m.writer

\* the snapshot goroutine t saves; its temperature is the number of the
\* goroutine
SnapshotOf(t) ==
    MkSnapshot(AggLocation, StartTime, <<t, 1>>, <<0, 1>>, <<0, 1>>, <<0, 1>>,
               <<0, 1>>, ConditionClear, <<>>)

\* a store with a count cap, used by MaxThreads goroutines
LockInit ==
    /\ mu = [writer |-> FALSE, readers |-> 0]
    /\ thread = [t \in Threads |-> NoOp]
    /\ data = <<>>
    /\ maxHistory \in 0..MaxCap
    /\ maxAge = 0
    /\ now = StartTime
    /\ written = [k \in Keys |-> <<>>]
    /\ ret = [op |-> "none"]
    /\ AggIdle
    /\ providers = <<>>
    /\ FetchIdle
    /\ ResIdle
    /\ BackoffIdle
    /\ SchedIdle
    /\ ForecastIdle
    /\ HttpIdle

\* goroutine t calls a store operation and reaches its Lock or RLock
Begin(t, op) ==
    /\ thread[t].pc = "idle"
    /\ thread' = [thread EXCEPT ![t] =
                    [NoOp EXCEPT !.op = op,
                                 !.pc = IF op = "SaveSnapshot" THEN "lock" ELSE "rlock"]]
    /\ UNCHANGED <<mu, storeVars, aggVars, fetchVars, resVars, backoffVars, schedVars,
                   forecastVars, httpVars>>

\* s.mu.Lock() of SaveSnapshot returns
Lock(t) ==
    /\ thread[t].pc = "lock"
    /\ CanLock(mu)
    /\ mu' = [mu EXCEPT !.writer = TRUE]
    /\ thread' = [thread EXCEPT ![t].pc = "load"]
    /\ UNCHANGED <<storeVars, aggVars, fetchVars, resVars, backoffVars, schedVars,
                   forecastVars, httpVars>>

\* SaveSnapshot reads history.Snapshots, the first half of the append
Load(t) ==
    /\ thread[t].pc = "load"
    /\ thread' = [thread EXCEPT ![t].pc = "append",
                                ![t].local = HistoryOf(data, Key(AggLocation))]
    /\ UNCHANGED <<mu, storeVars, aggVars, fetchVars, resVars, backoffVars, schedVars,
                   forecastVars, httpVars>>

\* SaveSnapshot assigns the appended slice to history.Snapshots
AppendSnapshot(t) ==
    /\ thread[t].pc = "append"
    /\ data' = [k \in DOMAIN data \cup {Key(AggLocation)} |->
                  IF k = Key(AggLocation)
                  THEN Append(thread[t].local, SnapshotOf(t)) ELSE data[k]]
    /\ written' = [written EXCEPT ![Key(AggLocation)] = Append(@, SnapshotOf(t))]
    /\ thread' = [thread EXCEPT ![t].pc = "retain", ![t].local = <<>>]
    /\ UNCHANGED <<mu, maxHistory, maxAge, now, ret, aggVars, fetchVars, resVars,
                   backoffVars, schedVars, forecastVars, httpVars>>

\* SaveSnapshot enforces the retention by count and by age
Retain(t) ==
    /\ thread[t].pc = "retain"
    /\ data' = [data EXCEPT ![Key(AggLocation)] =
                  EnforceAge(EnforceCount(@, maxHistory), maxAge, now)]
    /\ thread' = [thread EXCEPT ![t].pc = "unlock"]
    /\ UNCHANGED <<mu, maxHistory, maxAge, now, written, ret, aggVars, fetchVars, resVars,
                   backoffVars, schedVars, forecastVars, httpVars>>

\* the deferred s.mu.Unlock() of SaveSnapshot
Unlock(t) ==
    /\ thread[t].pc = "unlock"
    /\ mu' = [mu EXCEPT !.writer = FALSE]
    /\ thread' = [thread EXCEPT ![t].pc = "done"]
    /\ UNCHANGED <<storeVars, aggVars, fetchVars, resVars, backoffVars, schedVars,
                   forecastVars, httpVars>>

\* s.mu.RLock() of GetLatest or GetRange returns
RLock(t) ==
    /\ thread[t].pc = "rlock"
    /\ CanRLock(mu)
    /\ mu' = [mu EXCEPT !.readers = @ + 1]
    /\ thread' = [thread EXCEPT ![t].pc = "read"]
    /\ UNCHANGED <<storeVars, aggVars, fetchVars, resVars, backoffVars, schedVars,
                   forecastVars, httpVars>>

\* GetLatest or GetRange reads the history and builds its result; GetRange
\* asks for every instant of the model
Read(t) ==
    /\ thread[t].pc = "read"
    /\ thread' = [thread EXCEPT ![t].pc = "runlock",
                                ![t].result =
                                   IF thread[t].op = "GetLatest"
                                   THEN GetLatestResult(data, AggLocation)
                                   ELSE GetRangeResult(data, AggLocation, ZeroTime, MaxTime)]
    /\ UNCHANGED <<mu, storeVars, aggVars, fetchVars, resVars, backoffVars, schedVars,
                   forecastVars, httpVars>>

\* the deferred s.mu.RUnlock()
RUnlock(t) ==
    /\ thread[t].pc = "runlock"
    /\ mu' = [mu EXCEPT !.readers = @ - 1]
    /\ thread' = [thread EXCEPT ![t].pc = "done"]
    /\ UNCHANGED <<storeVars, aggVars, fetchVars, resVars, backoffVars, schedVars,
                   forecastVars, httpVars>>

LockNext ==
    \/ \E t \in Threads, op \in StoreOps : Begin(t, op)
    \/ \E t \in Threads : Lock(t)
    \/ \E t \in Threads : Load(t)
    \/ \E t \in Threads : AppendSnapshot(t)
    \/ \E t \in Threads : Retain(t)
    \/ \E t \in Threads : Unlock(t)
    \/ \E t \in Threads : RLock(t)
    \/ \E t \in Threads : Read(t)
    \/ \E t \in Threads : RUnlock(t)

SpecLock == LockInit /\ [][LockNext]_vars

\* --------------------------------------------------------- time.Duration

\* time.Duration is an int64 count of nanoseconds.  The durations of the
\* model are 0, the powers of two 2^exp that fit, and -2^63, the value a
\* product wraps to; a duration is the record of its sign and its exponent.
DurationBits == 64

Zero == [sign |-> 0, exp |-> 0]

\* the duration of 2^e nanoseconds, 0 <= e <= 62
PowerOfTwo(e) == [sign |-> 1, exp |-> e]

\* math.MinInt64 nanoseconds
MinDuration == [sign |-> -1, exp |-> DurationBits - 1]

\* d * time.Duration(math.Pow(2, float64(k))) in int64 arithmetic, k <= 62
TimesPowerOfTwo(d, k) ==
    IF d.sign = 0 THEN Zero
    ELSE IF d.exp + k < DurationBits - 1 THEN [sign |-> d.sign, exp |-> d.exp + k]
    ELSE IF d.exp + k = DurationBits - 1 THEN MinDuration
    ELSE Zero

\* the position of a duration in the order of the integers
Rank(d) == d.sign * (d.exp + 1)

\* a > b on durations
Greater(a, b) == Rank(a) > Rank(b)

\* "Backoff with exponential delay": the delay after failed attempt number
\* attempt
BackoffDelay(c, attempt) ==
    LET delay == TimesPowerOfTwo(c.InitialInterval, attempt) IN
    IF Greater(delay, c.MaxInterval) /\ Greater(c.MaxInterval, Zero)
    THEN c.MaxInterval
    ELSE delay

\* providers.BackoffConfig
MkBackoffConfig(retries, initial, max) ==
    [MaxRetries |-> retries, InitialInterval |-> initial, MaxInterval |-> max]

\* the configurations doRequestWithResilience accepts: MaxRetries >= 0,
\* InitialInterval > 0; a MaxInterval of 0 means no cap
BackoffConfigs ==
    { MkBackoffConfig(r, PowerOfTwo(i), m) :
        r \in 0..MaxRetriesBound,
        i \in 0..(DurationBits - 2),
        m \in {Zero} \cup { PowerOfTwo(e) : e \in 0..(DurationBits - 2) } }

\* a configuration and the number of a failed attempt that is followed by
\* another one
BackoffInit ==
    /\ backoffIn \in { x \in [cfg : BackoffConfigs, attempt : 0..MaxRetriesBound] :
                         x.attempt < x.cfg.MaxRetries }
    /\ backoffOut = <<>>
    /\ StoreIdle
    /\ AggIdle
    /\ providers = <<>>
    /\ FetchIdle
    /\ ResIdle
    /\ SchedIdle
    /\ ExtraIdle

\* the delay computation of one iteration of the retry loop
Backoff ==
    /\ backoffOut = <<>>
    /\ backoffOut' = <<BackoffDelay(backoffIn.cfg, backoffIn.attempt)>>
    /\ UNCHANGED <<backoffIn, storeVars, aggVars, fetchVars, extraVars, resVars, schedVars>>

BackoffNext == Backoff

SpecBackoff == BackoffInit /\ [][BackoffNext]_vars

\* ------------------------------------------- gobreaker.CircuitBreaker

\* the breaker every provider constructor builds: MaxRequests 5, ReadyToTrip
\* unset, so the library trips on more than 5 consecutive failures.  The
\* breaker is the record of its state, its generation, whether the clock
\* has passed its expiry, and its counts; the library reads Requests and
\* ConsecutiveSuccesses only in the half-open state and they are kept only
\* there.
MaxRequests == 5
DefaultTripThreshold == 5

StateClosed == "closed"
StateHalfOpen == "half-open"
StateOpen == "open"

ErrOpenState == "gobreaker.ErrOpenState"
ErrTooManyRequests == "gobreaker.ErrTooManyRequests"

\* a breaker in state st with n successful trial requests and f consecutive
\* failures
MkBreaker(st, gen, n, f) ==
    [ state |-> st, generation |-> gen, expired |-> FALSE,
      requests |-> n, successes |-> n, failures |-> f ]

\* setState and toNewGeneration: a new generation with cleared counts
SetState(b, st) == MkBreaker(st, b.generation + 1, 0, 0)

\* currentState: a closed breaker whose interval has passed starts a new
\* generation, an open breaker whose timeout has passed becomes half-open
CurrentState(b) ==
    IF b.expired /\ b.state = StateClosed THEN SetState(b, StateClosed)
    ELSE IF b.expired /\ b.state = StateOpen THEN SetState(b, StateHalfOpen)
    ELSE b

\* mutant of BeforeRequest: an open breaker admits the request
BeforeRequest_AdmitWhenOpen(b) ==
    LET s == CurrentState(b) IN
    [cb |-> [s EXCEPT !.requests = IF s.state = StateHalfOpen THEN @ + 1 ELSE @],
     err |-> "nil"]

\* beforeRequest: the breaker after the admission check and the error of
\* the check
BeforeRequest(b) ==
    LET s == CurrentState(b) IN
    IF s.state = StateOpen THEN [cb |-> s, err |-> ErrOpenState]
    ELSE IF s.state = StateHalfOpen /\ s.requests >= MaxRequests
    THEN [cb |-> s, err |-> ErrTooManyRequests]
    ELSE [cb |-> [s EXCEPT !.requests = IF s.state = StateHalfOpen THEN @ + 1 ELSE @],
          err |-> "nil"]

\* mutant of OnSuccess: the first successful trial closes a half-open breaker
OnSuccess_FirstTrialCloses(s) ==
    IF s.state = StateClosed THEN [s EXCEPT !.failures = 0]
    ELSE IF s.state = StateHalfOpen THEN SetState(s, StateClosed)
    ELSE s

\* onSuccess
OnSuccess(s) ==
    IF s.state = StateClosed THEN [s EXCEPT !.failures = 0]
    ELSE IF s.state = StateHalfOpen
    THEN IF s.successes + 1 >= MaxRequests
         THEN SetState(s, StateClosed)
         ELSE [s EXCEPT !.successes = @ + 1, !.failures = 0]
    ELSE s

\* onFailure
OnFailure(s) ==
    IF s.state = StateClosed
    THEN IF s.failures + 1 > DefaultTripThreshold
         THEN SetState(s, StateOpen)
         ELSE [s EXCEPT !.failures = @ + 1]
    ELSE IF s.state = StateHalfOpen THEN SetState(s, StateOpen)
    ELSE s

\* mutant of AfterRequest: the outcome counts whatever the generation
AfterRequest_AnyGeneration(b, before, success) ==
    LET s == CurrentState(b) IN
    IF success THEN OnSuccess(s) ELSE OnFailure(s)

\* afterRequest: the outcome of a request admitted in generation before
AfterRequest(b, before, success) ==
    LET s == CurrentState(b) IN
    IF s.generation # before THEN s
    ELSE IF success THEN OnSuccess(s) ELSE OnFailure(s)

\* Generations are numbered relative to the current one: the breaker is
\* stored with generation 0, and a request admitted in an earlier generation
\* carries the number -1.
Renumber(b) == [b EXCEPT !.generation = 0]

\* the calls after the breaker went from generation 0 to that of b: the
\* requests in flight belong to an earlier generation once it has changed
Outdated(cs, b) ==
    [ c \in DOMAIN cs |->
        IF cs[c].pc = "do" /\ b.generation # 0
        THEN [cs[c] EXCEPT !.before = -1]
        ELSE cs[c] ]

\* ------------------------------------------- doRequestWithResilience

\* what cfg.Client.Do returns: an error or a response with a status code;
\* under a done context it returns an error that wraps ctx.Err()
DoResults(ctxDone) ==
    IF ctxDone THEN {[err |-> "ctxErr", status |-> 0]}
    ELSE {[err |-> "execErr", status |-> 0]} \cup
         {[err |-> "nil", status |-> code] : code \in {200, 404, 429, 503}}

\* the error returned by the function given to cb.Execute
ExecuteError(res) ==
    IF res.err # "nil" THEN res.err
    ELSE IF res.status = 429 THEN "errRateLimited"
    ELSE IF res.status >= 500 THEN "errServerError"
    ELSE IF res.status < 200 \/ res.status >= 300 THEN "errUnexpected"
    ELSE "nil"

\* mutant of ReportError: every error is reported as an open circuit
ReportError_AlwaysCircuitOpen(err) == "errCircuitOpen"

\* "If circuit is open, propagate immediately": the error the call returns
\* for an error of cb.Execute
ReportError(err) ==
    IF err \in {ErrOpenState, ErrTooManyRequests} THEN "errCircuitOpen" ELSE err

\* mutant of RetriesLeft: one attempt fewer
RetriesLeft_OneFewer(c, attempt) == attempt + 1 < c.MaxRetries

\* attempt >= cfg.Backoff.MaxRetries ends the loop
RetriesLeft(c, attempt) == attempt < c.MaxRetries

\* mutant of ContextDone: the context is never seen as done
ContextDone_Never(k) == FALSE

\* ctx.Err() != nil, and ctx.Done() being ready
ContextDone(k) == k.ctxDone

\* the locals of a call that has not started
NoCall ==
    [ pc |-> "idle", attempt |-> 0, lastErr |-> "nil", requests |-> 0,
      waits |-> <<>>, ctxDone |-> FALSE, before |-> 0, ret |-> "none" ]

\* providers.HTTPClientConfig; Client is whether cfg.Client is set
MkHTTPClientConfig(client, backoff) == [Client |-> client, Backoff |-> backoff]

\* the configurations of the calls: those of the provider constructors with
\* MaxRetries up to the bound, and those that fail the checks at the head of
\* the function (no client, negative MaxRetries, InitialInterval zero or
\* negative)
ResConfigs ==
    { MkHTTPClientConfig(TRUE, MkBackoffConfig(r, PowerOfTwo(29), PowerOfTwo(32))) :
        r \in (0 - 1)..MaxResRetries }
    \cup { MkHTTPClientConfig(TRUE, MkBackoffConfig(0, i, PowerOfTwo(32))) :
            i \in {Zero, MinDuration} }
    \cup { MkHTTPClientConfig(FALSE, MkBackoffConfig(0, PowerOfTwo(29), PowerOfTwo(32))) }

\* mutant of ConfigError: the configuration is not checked
ConfigError_Unchecked(c) == "nil"

\* the checks at the head of doRequestWithResilience: the error returned,
\* or nil
ConfigError(c) ==
    IF ~c.Client THEN "errNoHTTPClient"
    ELSE IF c.Backoff.MaxRetries < 0 \/ ~Greater(c.Backoff.InitialInterval, Zero)
    THEN "errInvalidConfig"
    ELSE "nil"

\* the breakers no request is in flight on: closed with up to the threshold
\* of consecutive failures, open, half-open after some successful trials
QuietBreakers ==
    { MkBreaker(StateClosed, 0, 0, f) : f \in 0..DefaultTripThreshold }
    \cup { MkBreaker(StateOpen, 0, 0, 0) }
    \cup { MkBreaker(StateHalfOpen, 0, n, 0) : n \in 0..(MaxRequests - 1) }

\* a provider whose breaker is in any quiet state, no call made yet
ResInit ==
    /\ cfg \in ResConfigs
    /\ cb \in QuietBreakers
    /\ call = [c \in Locations |-> NoCall]
    /\ resCalls = 0
    /\ StoreIdle
    /\ AggIdle
    /\ providers = <<>>
    /\ FetchIdle
    /\ BackoffIdle
    /\ SchedIdle
    /\ ExtraIdle

\* doRequestWithResilience is called for location c: the configuration check
Invoke(c) ==
    /\ call[c].pc \in {"idle", "done"}
    /\ resCalls < MaxResCalls
    /\ resCalls' = resCalls + 1
    /\ call' = [call EXCEPT ![c] =
                  IF ConfigError(cfg) # "nil"
                  THEN [NoCall EXCEPT !.pc = "done", !.ret = ConfigError(cfg)]
                  ELSE [NoCall EXCEPT !.pc = "loop"]]
    /\ UNCHANGED <<cfg, cb, storeVars, aggVars, fetchVars, extraVars, backoffVars, schedVars>>

\* the context of the call of c is cancelled or its deadline passes
Cancel(c) ==
    /\ call[c].pc \in {"loop", "do", "wait"}
    /\ ~call[c].ctxDone
    /\ call' = [call EXCEPT ![c].ctxDone = TRUE]
    /\ UNCHANGED <<cfg, cb, resCalls, storeVars, aggVars, fetchVars, extraVars, backoffVars, schedVars>>

\* the head of the retry loop: the context check, then cb.Execute up to the
\* breaker's admission of the request
LoopHead(c) ==
    LET k == call[c]
        r == BeforeRequest(cb)
    IN /\ k.pc = "loop"
       /\ IF ContextDone(k)
          THEN /\ call' = [call EXCEPT ![c].pc = "done", ![c].ret = "ctxErr"]
               /\ cb' = cb
          ELSE /\ cb' = Renumber(r.cb)
               /\ call' = [Outdated(call, r.cb) EXCEPT ![c] =
                             IF r.err # "nil"
                             THEN [k EXCEPT !.pc = "done", !.ret = ReportError(r.err)]
                             ELSE [k EXCEPT !.pc = "do", !.requests = @ + 1,
                                            !.before = 0]]
       /\ UNCHANGED <<cfg, resCalls, storeVars, aggVars, fetchVars, extraVars, backoffVars, schedVars>>

\* cfg.Client.Do returns res: the breaker records the outcome, the call
\* returns the response or an error, or starts the backoff timer
RequestDone(c, res) ==
    LET k == call[c]
        err == ExecuteError(res)
    IN /\ k.pc = "do"
       /\ res \in DoResults(k.ctxDone)
       /\ cb' = Renumber(AfterRequest(cb, k.before, err = "nil"))
       /\ call' = [Outdated(call, AfterRequest(cb, k.before, err = "nil")) EXCEPT ![c] =
                     IF err = "nil"
                     THEN [k EXCEPT !.pc = "done", !.before = 0, !.ret = "resp"]
                     ELSE IF ReportError(err) = "errCircuitOpen"
                     THEN [k EXCEPT !.pc = "done", !.before = 0, !.ret = ReportError(err)]
                     ELSE IF ~RetriesLeft(cfg.Backoff, k.attempt)
                     THEN [k EXCEPT !.pc = "done", !.before = 0, !.lastErr = err,
                                    !.ret = err]
                     ELSE [k EXCEPT !.pc = "wait", !.before = 0, !.lastErr = err,
                                    !.waits = Append(@, BackoffDelay(cfg.Backoff, k.attempt))]]
       /\ UNCHANGED <<cfg, resCalls, storeVars, aggVars, fetchVars, extraVars, backoffVars, schedVars>>

\* the select on ctx.Done() and the timer: the call returns ctx.Err() or the
\* timer fires and the next attempt starts
BackoffDone(c) ==
    LET k == call[c]
    IN /\ k.pc = "wait"
       /\ \/ /\ ContextDone(k)
             /\ call' = [call EXCEPT ![c].pc = "done", ![c].ret = "ctxErr"]
          \/ call' = [call EXCEPT ![c].pc = "loop", ![c].attempt = @ + 1]
       /\ UNCHANGED <<cfg, cb, resCalls, storeVars, aggVars, fetchVars, extraVars, backoffVars, schedVars>>

\* the clock passes the breaker's expiry: the end of the interval of a closed
\* breaker, the end of the timeout of an open one
ExpiryPasses ==
    /\ cb.state \in {StateClosed, StateOpen}
    /\ ~cb.expired
    /\ cb' = [cb EXCEPT !.expired = TRUE]
    /\ UNCHANGED <<cfg, call, resCalls, storeVars, aggVars, fetchVars, extraVars, backoffVars, schedVars>>

ResNext ==
    \/ \E c \in Locations : Invoke(c)
    \/ \E c \in Locations : Cancel(c)
    \/ \E c \in Locations : LoopHead(c)
    \/ \E c \in Locations, res \in DoResults(TRUE) \cup DoResults(FALSE) :
          RequestDone(c, res)
    \/ \E c \in Locations : BackoffDone(c)
    \/ ExpiryPasses

SpecRes == ResInit /\ [][ResNext]_vars

\* one location's calls, made one after another on a breaker of their own
SingleCaller == AggLocation

ResLiveNext ==
    \/ Invoke(SingleCaller)
    \/ Cancel(SingleCaller)
    \/ LoopHead(SingleCaller)
    \/ \E res \in DoResults(TRUE) \cup DoResults(FALSE) : RequestDone(SingleCaller, res)
    \/ BackoffDone(SingleCaller)
    \/ ExpiryPasses

\* a call that has started keeps running: its goroutine is scheduled,
\* cfg.Client.Do returns (the client has a timeout and the request carries
\* the context), and the backoff timer fires
ResFairness ==
    /\ WF_vars(LoopHead(SingleCaller))
    /\ WF_vars(\E res \in DoResults(TRUE) \cup DoResults(FALSE) :
                  RequestDone(SingleCaller, res))
    /\ WF_vars(BackoffDone(SingleCaller))

SpecResLive == ResInit /\ [][ResLiveNext]_vars /\ ResFairness

\* ------------------------------------------- the breakers of the providers

\* The calls of doRequestWithResilience that run at the same time here, each
\* with the provider whose circuit it is given: openweather's Fetch and
\* FetchForecast, and weatherapi's Fetch.
SharedCalls ==
    << [provider |-> "openweather", method |-> "Fetch"],
       [provider |-> "openweather", method |-> "FetchForecast"],
       [provider |-> "weatherapi", method |-> "Fetch"] >>

\* mutant of Circuit: one breaker serves every provider
Circuit_ProcessWide(k) == "openweather"

\* p.circuit of the provider of call k
Circuit(k) == SharedCalls[k].provider

\* the calls after the breaker of provider name went from generation 0 to
\* that of b: its requests in flight belong to an earlier generation once it
\* has changed
OutdatedOn(cs, name, b) ==
    [ j \in DOMAIN cs |->
        IF cs[j].pc = "do" /\ Circuit(j) = name /\ b.generation # 0
        THEN [cs[j] EXCEPT !.before = -1]
        ELSE cs[j] ]

\* the constructors have run: one breaker per provider, closed, without
\* failures or two failures before it trips
SharedInit ==
    /\ cfg \in { MkHTTPClientConfig(TRUE, MkBackoffConfig(r, PowerOfTwo(29), PowerOfTwo(32))) :
                   r \in 0..MaxResRetries }
    /\ cb \in [ { SharedCalls[k].provider : k \in DOMAIN SharedCalls } ->
                  { MkBreaker(StateClosed, 0, 0, f) : f \in {0, DefaultTripThreshold - 1} } ]
    /\ call = [k \in DOMAIN SharedCalls |-> NoCall]
    /\ resCalls = 0
    /\ StoreIdle
    /\ AggIdle
    /\ providers = <<>>
    /\ FetchIdle
    /\ BackoffIdle
    /\ SchedIdle
    /\ ExtraIdle

\* call k of doRequestWithResilience is made, once
SharedInvoke(k) ==
    /\ call[k].pc = "idle"
    /\ resCalls' = resCalls + 1
    /\ call' = [call EXCEPT ![k] =
                  IF ConfigError(cfg) # "nil"
                  THEN [NoCall EXCEPT !.pc = "done", !.ret = ConfigError(cfg)]
                  ELSE [NoCall EXCEPT !.pc = "loop"]]
    /\ UNCHANGED <<cfg, cb, storeVars, aggVars, fetchVars, extraVars, backoffVars,
                   schedVars>>

\* the head of the retry loop of call k, on the breaker of its provider
SharedLoopHead(k) ==
    LET c == call[k]
        r == BeforeRequest(cb[Circuit(k)])
    IN /\ c.pc = "loop"
       /\ cb' = [cb EXCEPT ![Circuit(k)] = Renumber(r.cb)]
       /\ call' = [OutdatedOn(call, Circuit(k), r.cb) EXCEPT ![k] =
                     IF r.err # "nil"
                     THEN [c EXCEPT !.pc = "done", !.ret = ReportError(r.err)]
                     ELSE [c EXCEPT !.pc = "do", !.requests = @ + 1, !.before = 0]]
       /\ UNCHANGED <<cfg, resCalls, storeVars, aggVars, fetchVars, extraVars,
                      backoffVars, schedVars>>

\* cfg.Client.Do of call k returns res
SharedRequestDone(k, res) ==
    LET c == call[k]
        err == ExecuteError(res)
        after == AfterRequest(cb[Circuit(k)], c.before, err = "nil")
    IN /\ c.pc = "do"
       /\ res \in DoResults(FALSE)
       /\ cb' = [cb EXCEPT ![Circuit(k)] = Renumber(after)]
       /\ call' = [OutdatedOn(call, Circuit(k), after) EXCEPT ![k] =
                     IF err = "nil"
                     THEN [c EXCEPT !.pc = "done", !.before = 0, !.ret = "resp"]
                     ELSE IF ~RetriesLeft(cfg.Backoff, c.attempt)
                     THEN [c EXCEPT !.pc = "done", !.before = 0, !.lastErr = err,
                                    !.ret = err]
                     ELSE [c EXCEPT !.pc = "wait", !.before = 0, !.lastErr = err,
                                    !.waits = Append(@, BackoffDelay(cfg.Backoff, c.attempt))]]
       /\ UNCHANGED <<cfg, resCalls, storeVars, aggVars, fetchVars, extraVars,
                      backoffVars, schedVars>>

\* the backoff timer of call k fires
SharedBackoffDone(k) ==
    /\ call[k].pc = "wait"
    /\ call' = [call EXCEPT ![k].pc = "loop", ![k].attempt = @ + 1]
    /\ UNCHANGED <<cfg, cb, resCalls, storeVars, aggVars, fetchVars, extraVars,
                   backoffVars, schedVars>>

SharedNext ==
    \/ \E k \in DOMAIN SharedCalls : SharedInvoke(k)
    \/ \E k \in DOMAIN SharedCalls : SharedLoopHead(k)
    \/ \E k \in DOMAIN SharedCalls, res \in DoResults(FALSE) : SharedRequestDone(k, res)
    \/ \E k \in DOMAIN SharedCalls : SharedBackoffDone(k)

SpecShared == SharedInit /\ [][SharedNext]_vars

\* ------------------------------------ FetchAndStore under a deadline

\* One FetchAndStore call for one location under a context with a deadline,
\* as the scheduler makes it: every provider's Fetch runs
\* doRequestWithResilience under that context, each on the breaker of its
\* provider.  call[i] holds the locals of the Fetch of the i-th provider and
\* cb[i] its breaker.

\* mutant of RequestObeysContext: the request is not bound to the context
RequestObeysContext_Never(k) == FALSE

\* req.WithContext(ctx): cfg.Client.Do returns once the context is done
RequestObeysContext(k) == k.ctxDone

\* what Fetch returns for the return value of doRequestWithResilience: the
\* error, or the decoded reading, or the error of the decoder
FetchResults(name, r, t) ==
    IF r # "resp" THEN { [err |-> r, r |-> <<>>] }
    ELSE { [err |-> "nil", r |-> <<FetchedReading(name, t)>>],
           [err |-> "decodeErr", r |-> <<>>] }

DeadlineInit ==
    /\ data = <<>>
    /\ maxHistory = 0
    /\ maxAge = 0
    /\ now = StartTime
    /\ written = [k \in Keys |-> <<>>]
    /\ ret = [op |-> "none"]
    /\ AggIdle
    /\ providers \in { SubSeq(ProviderNames, 1, k) : k \in 1..2 }
    /\ FetchIdle
    /\ cfg \in { c \in ResConfigs : c.Backoff.MaxRetries \in {0, MaxResRetries} }
    /\ cb \in [DOMAIN providers ->
                 { MkBreaker(StateClosed, 0, 0, 0),
                   MkBreaker(StateClosed, 0, 0, DefaultTripThreshold),
                   MkBreaker(StateOpen, 0, 0, 0) }]
    /\ call = [i \in DOMAIN providers |-> NoCall]
    /\ resCalls = 0
    /\ BackoffIdle
    /\ SchedIdle
    /\ ExtraIdle

\* the deadline of the context passes: every goroutine of the call sees it
DeadlinePasses ==
    /\ pc[SingleCaller] = "wait"
    /\ \E i \in DOMAIN call : ~call[i].ctxDone
    /\ call' = [i \in DOMAIN call |-> [call[i] EXCEPT !.ctxDone = TRUE]]
    /\ UNCHANGED <<cfg, cb, resCalls, storeVars, aggVars, fetchVars, extraVars,
                   backoffVars, schedVars>>

\* the goroutine of provider i calls Fetch, which calls
\* doRequestWithResilience: the configuration check
TaskInvoke(i) ==
    /\ i \in DOMAIN task[SingleCaller]
    /\ task[SingleCaller][i].st = "fetching"
    /\ call[i].pc = "idle"
    /\ resCalls' = resCalls + 1
    /\ call' = [call EXCEPT ![i] =
                  IF ConfigError(cfg) # "nil"
                  THEN [@ EXCEPT !.pc = "done", !.ret = ConfigError(cfg)]
                  ELSE [@ EXCEPT !.pc = "loop"]]
    /\ UNCHANGED <<cfg, cb, storeVars, aggVars, fetchVars, extraVars, backoffVars,
                   schedVars>>

\* the head of the retry loop of provider i
TaskLoopHead(i) ==
    /\ i \in DOMAIN call
    /\ call[i].pc = "loop"
    /\ LET k == call[i]
           r == BeforeRequest(cb[i])
       IN IF ContextDone(k)
          THEN /\ call' = [call EXCEPT ![i].pc = "done", ![i].ret = "ctxErr"]
               /\ cb' = cb
          ELSE /\ cb' = [cb EXCEPT ![i] = Renumber(r.cb)]
               /\ call' = [call EXCEPT ![i] =
                             IF r.err # "nil"
                             THEN [k EXCEPT !.pc = "done", !.ret = ReportError(r.err)]
                             ELSE [k EXCEPT !.pc = "do", !.requests = @ + 1,
                                            !.before = 0]]
    /\ UNCHANGED <<cfg, resCalls, storeVars, aggVars, fetchVars, extraVars, backoffVars,
                   schedVars>>

\* cfg.Client.Do of provider i returns res
TaskRequestDone(i, res) ==
    /\ i \in DOMAIN call
    /\ call[i].pc = "do"
    /\ res \in DoResults(call[i].ctxDone)
    /\ LET k == call[i]
           err == ExecuteError(res)
       IN /\ cb' = [cb EXCEPT ![i] = Renumber(AfterRequest(@, k.before, err = "nil"))]
          /\ call' = [call EXCEPT ![i] =
                        IF err = "nil"
                        THEN [k EXCEPT !.pc = "done", !.ret = "resp"]
                        ELSE IF ReportError(err) = "errCircuitOpen"
                        THEN [k EXCEPT !.pc = "done", !.ret = ReportError(err)]
                        ELSE IF ~RetriesLeft(cfg.Backoff, k.attempt)
                        THEN [k EXCEPT !.pc = "done", !.lastErr = err, !.ret = err]
                        ELSE [k EXCEPT !.pc = "wait", !.lastErr = err,
                                       !.waits = Append(@, BackoffDelay(cfg.Backoff, k.attempt))]]
    /\ UNCHANGED <<cfg, resCalls, storeVars, aggVars, fetchVars, extraVars, backoffVars,
                   schedVars>>

\* the select of provider i on ctx.Done() and the timer
TaskBackoffDone(i) ==
    /\ i \in DOMAIN call
    /\ call[i].pc = "wait"
    /\ \/ /\ ContextDone(call[i])
          /\ call' = [call EXCEPT ![i].pc = "done", ![i].ret = "ctxErr"]
       \/ call' = [call EXCEPT ![i].pc = "loop", ![i].attempt = @ + 1]
    /\ UNCHANGED <<cfg, cb, resCalls, storeVars, aggVars, fetchVars, extraVars,
                   backoffVars, schedVars>>

\* Fetch of provider i returns in its goroutine, which appends the reading
\* or returns; wg.Done runs
TaskReturns(i) ==
    /\ i \in DOMAIN task[SingleCaller]
    /\ task[SingleCaller][i].st = "fetching"
    /\ call[i].pc = "done"
    /\ \E out \in FetchResults(providers[i], call[i].ret, now) :
          /\ task' = [task EXCEPT ![SingleCaller] = TaskReturned(@, i, out.err)]
          /\ readings' = [readings EXCEPT ![SingleCaller] = AppendReading(@, out)]
    /\ UNCHANGED <<storeVars, aggVars, providers, pc, fsRet, calls, otherVars>>

DeadlineNext ==
    \/ Call(SingleCaller)
    \/ DeadlinePasses
    \/ \E i \in DOMAIN ProviderNames : TaskInvoke(i)
    \/ \E i \in DOMAIN ProviderNames : TaskLoopHead(i)
    \/ \E i \in DOMAIN ProviderNames, res \in DoResults(TRUE) \cup DoResults(FALSE) :
          TaskRequestDone(i, res)
    \/ \E i \in DOMAIN ProviderNames : TaskBackoffDone(i)
    \/ \E i \in DOMAIN ProviderNames : TaskReturns(i)
    \/ Join(SingleCaller)

\* the deadline passes, every goroutine is scheduled, every timer fires, and
\* a request bound to a done context returns; a request under a live
\* context may stay unanswered
DeadlineFairness ==
    /\ WF_vars(DeadlinePasses)
    /\ WF_vars(Join(SingleCaller))
    /\ \A i \in DOMAIN ProviderNames :
          /\ WF_vars(TaskInvoke(i))
          /\ WF_vars(TaskLoopHead(i))
          /\ WF_vars(TaskBackoffDone(i))
          /\ WF_vars(TaskReturns(i))
          /\ WF_vars(\E res \in DoResults(TRUE) :
                        /\ i \in DOMAIN call
                        /\ RequestObeysContext(call[i])
                        /\ TaskRequestDone(i, res))

SpecDeadline == DeadlineInit /\ [][DeadlineNext]_vars /\ DeadlineFairness

\* ------------------------------------------------------ Scheduler.Start

\* the timeout of the context of each FetchAndStore call, the default
\* interval in minutes, and the seconds of a minute
FetchTimeout == 30
DefaultMinutes == 15
SecondsPerMinute == 60

\* minutes, as Start computes it from the interval
Minutes(d) ==
    IF d \div SecondsPerMinute <= 0 THEN DefaultMinutes ELSE d \div SecondsPerMinute

\* the intervals given to New, in seconds: none, less than a minute, one
\* minute, a minute and a half
Intervals == {0, FetchTimeout, SecondsPerMinute, SecondsPerMinute + FetchTimeout}

\* the scheduler after Start: the job is registered and its first run is due
SchedInit ==
    /\ interval \in Intervals
    /\ tick = 0
    /\ nextRun = 0
    /\ pass = <<>>
    /\ runs = 0
    /\ StoreIdle
    /\ AggIdle
    /\ providers = <<>>
    /\ FetchIdle
    /\ ResIdle
    /\ BackoffIdle
    /\ ExtraIdle

\* a run of the job is due: gocron starts the job function in a goroutine of
\* its own and schedules the next run; the function starts one goroutine per
\* location, each calling FetchAndStore
RunJob ==
    /\ tick = nextRun
    /\ runs < MaxRuns
    /\ runs' = runs + 1
    /\ nextRun' = tick + Minutes(interval) * SecondsPerMinute
    /\ pass' = Append(pass, [ start |-> tick,
                              fs |-> [l \in Locations |-> "running"],
                              completed |-> FALSE ])
    /\ UNCHANGED <<interval, tick, storeVars, aggVars, fetchVars, extraVars, resVars, backoffVars>>

\* the clock advances by the length of the fetch timeout, up to the next run
ClockAdvances ==
    /\ tick < nextRun
    /\ tick' = tick + FetchTimeout
    /\ UNCHANGED <<interval, nextRun, pass, runs, storeVars, aggVars, fetchVars, extraVars,
                   resVars, backoffVars>>

\* the FetchAndStore call of run r for location l returns
LocationDone(r, l) ==
    /\ r \in DOMAIN pass
    /\ pass[r].fs[l] = "running"
    /\ pass' = [pass EXCEPT ![r].fs[l] = "returned"]
    /\ UNCHANGED <<interval, tick, nextRun, runs, storeVars, aggVars, fetchVars, extraVars,
                   resVars, backoffVars>>

\* wg.Wait returns in run r and the job function ends
JobCompletes(r) ==
    /\ r \in DOMAIN pass
    /\ ~pass[r].completed
    /\ \A l \in Locations : pass[r].fs[l] = "returned"
    /\ pass' = [pass EXCEPT ![r].completed = TRUE]
    /\ UNCHANGED <<interval, tick, nextRun, runs, storeVars, aggVars, fetchVars, extraVars,
                   resVars, backoffVars>>

SchedNext ==
    \/ RunJob
    \/ ClockAdvances
    \/ \E r \in 1..MaxRuns, l \in Locations : LocationDone(r, l)
    \/ \E r \in 1..MaxRuns : JobCompletes(r)

SpecSched == SchedInit /\ [][SchedNext]_vars

\* ------------------------------------------------ properties of the store

Min(a, b) == IF a < b THEN a ELSE b

\* the last k elements of s
LastN(s, k) == SubSeq(s, Len(s) - k + 1, Len(s))

IsSuffix(s, t) == Len(s) <= Len(t) /\ s = LastN(t, Len(s))

\* C1 as claimed: with a count cap C > 0, after n writes to a location its
\* history is exactly the last min(n, C) records written, in write order.
C1_ExactlyLastMinNC ==
    \A k \in Keys :
        maxHistory > 0 =>
            HistoryOf(data, k) = LastN(written[k], Min(Len(written[k]), maxHistory))

\* C1 amended: with a count cap C > 0, after n writes to a location its history
\* is a suffix of the records written, in write order, of at most min(n, C)
\* records, and of exactly min(n, C) records when there is no age cap.
C1_LastMinNCWithoutAgeCap ==
    \A k \in Keys :
        maxHistory > 0 =>
            /\ IsSuffix(HistoryOf(data, k), written[k])
            /\ Len(HistoryOf(data, k)) <= Min(Len(written[k]), maxHistory)
            /\ maxAge = 0 =>
                  Len(HistoryOf(data, k)) = Min(Len(written[k]), maxHistory)

\* more writes than the cap allows have happened and the cap has evicted
C1_Witness ==
    \E k \in Keys :
        /\ maxHistory > 0 /\ maxAge = 0
        /\ Len(written[k]) > maxHistory
        /\ Len(HistoryOf(data, k)) = maxHistory

\* C2: with maxAge > 0, right after a SaveSnapshot no record of the written
\* location has a timestamp earlier than now - maxAge.
C2_NoExpiredRecordAfterSave ==
    (ret.op = "SaveSnapshot" /\ maxAge > 0) =>
        LET h == HistoryOf(data, Key(ret.loc)) IN
        \A i \in 1..Len(h) : h[i].Timestamp >= now - maxAge

\* C7: GetLatest of a location never written is not-found; GetRange is
\* not-found for an unknown location, for from > to and when no stored record
\* lies in [from, to], and never succeeds with an empty list.
C7_NotFound ==
    /\ (ret.op = "GetLatest" /\ written[Key(ret.loc)] = <<>>) =>
           ret.err = "ErrNotFound"
    /\ ret.op = "GetRange" =>
           LET h == HistoryOf(data, Key(ret.loc)) IN
           /\ ( \/ written[Key(ret.loc)] = <<>>
                \/ ret.from > ret.to
                \/ \A i \in 1..Len(h) :
                      ~(ret.from <= h[i].Timestamp /\ h[i].Timestamp <= ret.to) )
              => (ret.err = "ErrNotFound" /\ ret.value = <<>>)
           /\ ret.err = "nil" => ret.value # <<>>

\* GetRange with from > to was answered for a location that has records
C7_Witness ==
    /\ ret.op = "GetRange"
    /\ ret.from > ret.to
    /\ HistoryOf(data, Key(ret.loc)) # <<>>
    /\ ret.err = "ErrNotFound"

\* C8: GetLatest returns the record written last for the location, whatever
\* its timestamp; with a count cap of 1 a write leaves exactly the record
\* just written.
C8_LatestIsLastWritten ==
    /\ (ret.op = "GetLatest" /\ written[Key(ret.loc)] # <<>>) =>
           LET w == written[Key(ret.loc)] IN
           ret.err = "nil" /\ ret.value = <<w[Len(w)]>>
    /\ (ret.op = "SaveSnapshot" /\ maxHistory = 1) =>
           HistoryOf(data, Key(ret.loc)) = <<ret.snapshot>>

\* GetLatest returned a record older than one written before it
C8_Witness ==
    /\ ret.op = "GetLatest" /\ ret.err = "nil"
    /\ LET w == written[Key(ret.loc)] IN
       /\ Len(w) >= 2
       /\ ret.value[1] = w[Len(w)]
       /\ \E i \in 1..(Len(w) - 1) : w[i].Timestamp > ret.value[1].Timestamp

\* C9: GetRange returns exactly the stored records of the location with
\* from <= timestamp <= to, each once and in stored order.
C9_RangeIsClosedIntervalFilter ==
    ret.op = "GetRange" =>
        LET h == HistoryOf(data, Key(ret.loc))
            Inside(snap) == ret.from <= snap.Timestamp /\ snap.Timestamp <= ret.to
            expected == SelectSeq(h, Inside)
        IN /\ ret.value = expected
           /\ ret.err = IF expected = <<>> THEN "ErrNotFound" ELSE "nil"
           /\ \A i \in 1..Len(ret.value) : ret.value[i].Location = ret.loc

\* GetRange returned a record lying on the upper bound of the interval, left
\* one stored record out, and another location has records too
C9_Witness ==
    /\ ret.op = "GetRange" /\ ret.err = "nil"
    /\ ret.from < ret.to
    /\ \E i \in 1..Len(ret.value) : ret.value[i].Timestamp = ret.to
    /\ Len(ret.value) < Len(HistoryOf(data, Key(ret.loc)))
    /\ \E k \in Keys : k # Key(ret.loc) /\ HistoryOf(data, k) # <<>>

\* ------------------------------------------- properties of FetchAndStore

\* the step in which wg.Wait of the call for l returns
JoinStep(l) == pc[l] = "wait" /\ pc'[l] = "done"

\* the providers of the call for l whose Fetch returned a reading
Succeeded(l) == { i \in DOMAIN task[l] : task[l][i].st = "done" /\ task[l][i].err = "nil" }

\* the providers of the call for l whose Fetch returned an error
Failed(l) == { i \in DOMAIN task[l] : task[l][i].st = "done" /\ task[l][i].err # "nil" }

\* C3: a FetchAndStore call in which every provider fails returns nil and
\* leaves the store as it was for every location, so that GetLatest still
\* returns the last good record; no step of a call before wg.Wait returns
\* touches the store.
C3_AllFailedIsNoOp ==
    [][ /\ \A l \in Locations :
              (JoinStep(l) /\ Failed(l) = DOMAIN task[l]) =>
                  /\ fsRet'[l] = "nil"
                  /\ data' = data
                  /\ written' = written
                  /\ \A l2 \in Locations :
                        GetLatestResult(data', l2) = GetLatestResult(data, l2)
        /\ (\A l \in Locations : ~JoinStep(l)) => data' = data
      ]_vars

\* a call in which every provider failed has returned nil, and the last good
\* record of its location is still there
C3_Witness ==
    \E l \in Locations :
        /\ pc[l] = "done" /\ fsRet[l] = "nil"
        /\ Len(providers) > 0
        /\ Failed(l) = DOMAIN task[l]
        /\ GetLatestResult(data, l).err = "nil"

\* C4: when a non-empty set S of the providers succeeds and the rest fail,
\* the call appends exactly one record to the history of its location (and
\* none to another); its contributors are the providers of S, each once, and
\* the record is the aggregation of their readings alone.  With openweather
\* (10 degrees, clear) and weatherapi (20 degrees, clear) succeeding and
\* openmeteo timing out it has temperature 15, condition clear and 2
\* contributors.
C4_PartialSuccessStoresAggregateOfSucceeded ==
    [][ /\ \A l \in Locations :
              (JoinStep(l) /\ Succeeded(l) # {}) =>
                  /\ HistoryOf(data', Key(l)) # <<>>
                  /\ \A rec \in { GetLatestResult(data', l).value[1] } :
                     \A names \in { [j \in DOMAIN rec.Providers |->
                                       rec.Providers[j].ProviderName] } :
                     \A rs \in { [j \in DOMAIN names |-> FetchedReading(names[j], now)] } :
                        /\ written' = [written EXCEPT ![Key(l)] = Append(@, rec)]
                        /\ \A k \in DOMAIN data \ {Key(l)} : data'[k] = data[k]
                        /\ Len(names) = Cardinality(Succeeded(l))
                        /\ Range(names) = { providers[i] : i \in Succeeded(l) }
                        /\ rec \in AggregateResults(l, rs, now)
                        /\ ( /\ Len(providers) = 3
                             /\ Succeeded(l) = {1, 2}
                             /\ task[l][3].err = "ctxErr" ) =>
                               /\ rec.Temperature = <<15, 1>>
                               /\ rec.Condition = ConditionClear
                               /\ Len(rec.Providers) = 2
        /\ (\A l \in Locations : ~JoinStep(l)) => (data' = data /\ written' = written)
      ]_vars

\* two providers succeeded, the third timed out, and the record of the two is
\* the latest of the location
C4_Witness ==
    \E l \in Locations :
        /\ pc[l] = "done"
        /\ Len(providers) = 3
        /\ Succeeded(l) = {1, 2}
        /\ task[l][3].err = "ctxErr"
        /\ GetLatestResult(data, l).err = "nil"
        /\ GetLatestResult(data, l).value[1].Temperature = <<15, 1>>
        /\ Len(GetLatestResult(data, l).value[1].Providers) = 2

\* C5: whatever errors the providers return, a call with at least one provider
\* returns nil once all its goroutines have finished; a goroutine that fails
\* changes no other goroutine, no reading and no call, and a goroutine that
\* succeeds appends its reading whatever the others did.
C5_ProviderFailuresAreAbsorbed ==
    [][ \A l \in Locations :
          /\ JoinStep(l) =>
                /\ fsRet'[l] = "nil"
                /\ \A i \in DOMAIN task[l] : task[l][i].st = "done"
          /\ \A i \in DOMAIN task[l] :
                (task[l][i].st = "fetching" /\ task'[l][i].st = "done") =>
                    /\ \A l2 \in Locations : \A j \in DOMAIN task[l2] :
                          (l2 # l \/ j # i) =>
                              (j \in DOMAIN task'[l2] /\ task'[l2][j] = task[l2][j])
                    /\ pc' = pc
                    /\ IF task'[l][i].err # "nil"
                       THEN readings' = readings
                       ELSE readings' = [readings EXCEPT ![l] =
                                Append(@, FetchedReading(providers[i], now))]
      ]_vars

\* a call returned nil after an open circuit and a cancelled context, with
\* the reading of the third provider collected
C5_Witness ==
    \E l \in Locations :
        /\ pc[l] = "done" /\ fsRet[l] = "nil"
        /\ Len(providers) = 3
        /\ task[l][1].err = "errCircuitOpen"
        /\ task[l][2].err = "ctxErr"
        /\ task[l][3].err = "nil"
        /\ readings[l] = <<FetchedReading(providers[3], now)>>

\* C6: without providers a call returns the configuration error at once: it
\* never waits, starts no goroutine, collects no reading and the store is
\* never written.
C6_NoProvidersIsAnError ==
    Len(providers) = 0 =>
        /\ \A l \in Locations :
              /\ pc[l] \in {"idle", "done"}
              /\ task[l] = <<>>
              /\ readings[l] = <<>>
              /\ pc[l] = "done" => fsRet[l] = "no weather providers configured"
        /\ data = <<>>
        /\ \A k \in Keys : written[k] = <<>>

\* a call on a service without providers has returned its error
C6_Witness ==
    /\ Len(providers) = 0
    /\ \E l \in Locations :
          pc[l] = "done" /\ fsRet[l] = "no weather providers configured"

\* ---------------------------------------- properties of AggregateReadings

\* the number of readings in rs with condition c
CountOf(rs, c) == Cardinality({ i \in DOMAIN rs : rs[i].Condition = c })

\* the position of the first reading with condition c
FirstIndexOf(rs, c) ==
    CHOOSE i \in DOMAIN rs :
        /\ rs[i].Condition = c
        /\ \A j \in 1..(i - 1) : rs[j].Condition # c

\* C10: the aggregated condition has the highest occurrence count in the list,
\* and among the conditions with that count it is the first in the list.
C10_MajorityFirstSeenWins ==
    (aggOut # <<>> /\ aggIn # <<>>) =>
        LET c == aggOut[1].Condition IN
        /\ c \in { aggIn[i].Condition : i \in DOMAIN aggIn }
        /\ \A i \in DOMAIN aggIn :
              LET d == aggIn[i].Condition IN
              /\ CountOf(aggIn, d) <= CountOf(aggIn, c)
              /\ CountOf(aggIn, d) = CountOf(aggIn, c) =>
                    FirstIndexOf(aggIn, c) <= FirstIndexOf(aggIn, d)

\* the sum of one field over the first i readings
RECURSIVE TotalOf(_, _, _)
TotalOf(rs, field, i) ==
    IF i = 0 THEN 0 ELSE rs[i][field] + TotalOf(rs, field, i - 1)

\* the fraction q is the quotient sum / n
IsQuotient(q, sum, n) == q[2] > 0 /\ q[1] * n = sum * q[2]

\* each numeric field of a snapshot with the reading field it averages
NumericFields ==
    { <<"Temperature", "TemperatureC">>, <<"Humidity", "HumidityPct">>,
      <<"WindSpeed", "WindSpeedMS">>, <<"Pressure", "PressureHpa">>,
      <<"PrecipMM", "PrecipMm">> }

\* C11: for a non-empty reading list every numeric field of the result is the
\* sum of that field over all readings divided by the number of readings; a
\* field a provider does not report enters the sum as 0.
C11_EachFieldIsItsOwnMean ==
    (aggOut # <<>> /\ aggIn # <<>>) =>
        \A f \in NumericFields :
            IsQuotient(aggOut[1][f[1]],
                       TotalOf(aggIn, f[2], Len(aggIn)), Len(aggIn))

\* three readings were aggregated, one of them without a pressure, and the
\* mean pressure is not a whole number
C11_Witness ==
    /\ aggOut # <<>>
    /\ Len(aggIn) = 3
    /\ \E i, j \in DOMAIN aggIn :
          aggIn[i].PressureHpa = 0 /\ aggIn[j].PressureHpa > 0
    /\ aggOut[1].Pressure[2] = 3
    /\ aggOut[1].Pressure # aggOut[1].Temperature

\* C12: two calls of AggregateReadings with the same location and the same
\* reading list return the same snapshot, field by field.
C12_SameInputSameResult ==
    Len(aggOut) = 2 => aggOut[1] = aggOut[2]

\* ------------------------------------------- properties of the backoff delay

\* initial * 2^k as a number, without the int64 width
ExactProduct(initial, k) == [sign |-> 1, exp |-> initial.exp + k]

LeavesLoopHead(c) == call[c].pc = "loop" /\ call'[c].pc # "loop"

\* the step is the return of cfg.Client.Do in the call of c
DoReturns(c) == call[c].pc = "do" /\ call'[c].pc # "do"

\* the call of c has returned
Returned(c) == call[c].pc = "done"

\* the failures of an attempted remote call
RemoteFailures == {"execErr", "errRateLimited", "errServerError", "errUnexpected"}

\* the failures the call is meant to retry
RetryableFailures == {"execErr", "errRateLimited", "errServerError"}

\* C13: while the breaker is open and its cool-down has not elapsed, a call
\* that reaches the breaker returns a failure at once: it performs no HTTP
\* request and no backoff wait, and a call that started in that period has
\* performed none at all.
C13_OpenBreakerFailsFast ==
    [][\A c \in Locations :
          (LeavesLoopHead(c) /\ cb.state = StateOpen /\ ~cb.expired) =>
              /\ call'[c].pc = "done"
              /\ call'[c].ret \in {"errCircuitOpen", "ctxErr"}
              /\ call'[c].requests = call[c].requests
              /\ call'[c].waits = call[c].waits
              /\ call[c].attempt = 0 =>
                    call'[c].requests = 0 /\ call'[c].waits = <<>>
              /\ cb'.state = StateOpen]_vars

\* a call made while the breaker is open was rejected without a request
C13_Witness ==
    \E c \in Locations :
        /\ Returned(c)
        /\ call[c].ret = "errCircuitOpen"
        /\ call[c].requests = 0
        /\ call[c].waits = <<>>
        /\ ~call[c].ctxDone
        /\ cb.state = StateOpen
        /\ ~cb.expired

\* C14: a call the breaker rejects returns the circuit-open error, and a
\* call whose remote attempt failed never returns it.
C14_CircuitOpenIsDistinct ==
    [][\A c \in Locations :
          /\ (LeavesLoopHead(c) /\ ~call[c].ctxDone /\ call'[c].pc = "done") =>
                call'[c].ret = "errCircuitOpen"
          /\ (DoReturns(c) /\ call'[c].pc = "done" /\ call'[c].ret # "resp") =>
                call'[c].ret \in RemoteFailures \cup {"ctxErr"}
          /\ (DoReturns(c) /\ call'[c].pc = "wait") =>
                call'[c].lastErr \in RemoteFailures \cup {"ctxErr"}]_vars

\* one call was rejected by the breaker, the other made a request, returned
\* its failure and left the breaker open
C14_Witness ==
    \E c, d \in Locations :
        /\ Returned(c) /\ call[c].ret = "errCircuitOpen" /\ call[c].requests = 0
        /\ Returned(d) /\ call[d].ret \in RemoteFailures /\ call[d].requests > 0
        /\ call[d].before = 0
        /\ cb.state = StateOpen

\* the part of C15 that holds as stated: an open breaker whose cool-down has
\* elapsed is half-open at the next request and admits it, a half-open
\* breaker never has admitted more than MaxRequests requests, and one failed
\* trial request re-opens it
HalfOpenTrials ==
    \A c \in Locations :
        /\ (LeavesLoopHead(c) /\ ~call[c].ctxDone /\ cb.state = StateOpen /\ cb.expired) =>
              (cb'.state = StateHalfOpen /\ cb'.requests = 1 /\ call'[c].pc = "do")
        /\ cb'.state = StateHalfOpen => cb'.requests <= MaxRequests
        /\ (DoReturns(c) /\ call[c].before = 0 /\ cb.state = StateHalfOpen
             /\ call'[c].ret # "resp") =>
              cb'.state = StateOpen

\* the step is the return of a successful trial request to a half-open breaker
TrialSucceeds(c) ==
    /\ DoReturns(c)
    /\ call[c].before = 0
    /\ cb.state = StateHalfOpen
    /\ call'[c].ret = "resp"

\* C15 as stated: after the cool-down the breaker is half-open and admits a
\* bounded number of trial calls; one failed trial call re-opens it, and a
\* successful trial call closes it.
C15_SuccessfulTrialCloses ==
    [][/\ HalfOpenTrials
       /\ \A c \in Locations : TrialSucceeds(c) => cb'.state = StateClosed]_vars

\* C15 amended: a successful trial call closes the breaker when it is the
\* MaxRequests-th consecutive success of the half-open period, and leaves
\* it half-open otherwise.
C15_MaxRequestsSuccessesClose ==
    [][/\ HalfOpenTrials
       /\ \A c \in Locations :
             TrialSucceeds(c) =>
                 IF cb.successes + 1 >= MaxRequests
                 THEN cb'.state = StateClosed
                 ELSE cb'.state = StateHalfOpen /\ cb'.successes = cb.successes + 1]_vars

\* a trial call has succeeded and the breaker is still half-open, with a
\* further trial request in flight
C15_Witness ==
    \E c, d \in Locations :
        /\ Returned(c) /\ call[c].ret = "resp"
        /\ call[d].pc = "do" /\ call[d].before = 0
        /\ cb.state = StateHalfOpen
        /\ cb.successes >= 1
        /\ cb.requests > cb.successes

\* C16: a non-retryable failure ends the call after that attempt, without a
\* backoff wait; only network errors, 429 and 5xx responses are retried.
C16_NonRetryableReturnsAtOnce ==
    [][\A c \in Locations :
          /\ (DoReturns(c) /\ call'[c].lastErr = "errUnexpected") =>
                (call'[c].pc = "done" /\ call'[c].waits = call[c].waits)
          /\ (DoReturns(c) /\ call'[c].pc = "wait") =>
                call'[c].lastErr \in RetryableFailures \cup {"ctxErr"}]_vars

\* C17: a call never makes more than MaxRetries + 1 attempts; one that returns
\* a retryable failure has made exactly MaxRetries + 1 attempts with
\* MaxRetries waits between them and returns the failure of the last one;
\* every call that has started returns.
C17_ExactlyMaxRetriesPlusOneAttempts ==
    /\ [](\A c \in Locations :
            /\ call[c].requests <= cfg.Backoff.MaxRetries + 1
            /\ (Returned(c) /\ call[c].ret \in RetryableFailures) =>
                  /\ call[c].requests = cfg.Backoff.MaxRetries + 1
                  /\ Len(call[c].waits) = cfg.Backoff.MaxRetries
                  /\ call[c].ret = call[c].lastErr)
    /\ \A c \in Locations : (call[c].pc \in {"loop", "do", "wait"}) ~> Returned(c)

\* a call has used up its retries with the breaker still closed
C17_Witness ==
    \E c \in Locations :
        /\ Returned(c)
        /\ call[c].ret = "errServerError"
        /\ cfg.Backoff.MaxRetries = MaxResRetries
        /\ call[c].requests = MaxResRetries + 1
        /\ cb.state = StateClosed

InFlight(r) == \E l \in Locations : pass[r].fs[l] = "running"

\* C20: no two fetch passes are in flight at once: when a pass has started,
\* every FetchAndStore call of the passes before it has returned.
C20_NoOverlappingPasses ==
    \A r, s \in DOMAIN pass : (InFlight(r) /\ InFlight(s)) => r = s

\* the greatest timestamp among the readings
MaxTimestamp(rs) ==
    CHOOSE t \in { rs[i].Timestamp : i \in DOMAIN rs } :
        \A i \in DOMAIN rs : rs[i].Timestamp <= t

\* C30: the timestamp of an aggregated record is the greatest timestamp among
\* its readings; the current time stands in exactly when every reading has
\* the zero timestamp.
C30_TimestampIsNewestReading ==
    (aggOut # <<>> /\ aggIn # <<>>) =>
        IF \A i \in DOMAIN aggIn : aggIn[i].Timestamp = ZeroTime
        THEN aggOut[1].Timestamp = now
        ELSE /\ aggOut[1].Timestamp = MaxTimestamp(aggIn)
             /\ aggOut[1].Timestamp # ZeroTime

\* three readings were aggregated, the newest of them in the middle of the
\* list, one older and one without a timestamp
C30_Witness ==
    /\ Len(aggIn) = 3 /\ Len(aggOut) = 1
    /\ aggIn[1].Timestamp = ZeroTime
    /\ aggIn[2].Timestamp = StartTime
    /\ aggIn[3].Timestamp = StartTime - 1
    /\ aggOut[1].Timestamp = StartTime

\* ------------------------------------------- the order and the two bounds

\* C26: the history of every location is ascending by timestamp in every
\* reachable state.
C26_HistoryAscending ==
    \A k \in DOMAIN data :
        \A i \in 1..(Len(data[k]) - 1) :
            data[k][i].Timestamp <= data[k][i + 1].Timestamp

\* C27: a bound of 0 is no bound and each bound evicts on its own.  Without
\* bounds the history is everything written, in write order; with a count
\* cap alone it is the last min(n, cap) records written; with an age cap
\* alone it is a suffix of the records written and every record missing from
\* it is older than now - maxAge.
C27_BoundsAreIndependent ==
    \A k \in Keys :
        LET h == HistoryOf(data, k)
            w == written[k]
        IN /\ (maxHistory = 0 /\ maxAge = 0) => h = w
           /\ (maxHistory > 0 /\ maxAge = 0) => h = LastN(w, Min(Len(w), maxHistory))
           /\ (maxHistory = 0 /\ maxAge > 0) =>
                 /\ IsSuffix(h, w)
                 /\ \A i \in 1..(Len(w) - Len(h)) : w[i].Timestamp < now - maxAge

\* a store with an age cap and no count cap has evicted a record and holds
\* more than one
C27_Witness ==
    \E k \in Keys :
        /\ maxHistory = 0 /\ maxAge > 0
        /\ Len(HistoryOf(data, k)) < Len(written[k])
        /\ Len(HistoryOf(data, k)) > 1

\* ------------------------------------- the join and the write of a call

\* C28: aggregation and the store write of a call happen only when every
\* provider goroutine of the call has finished; after that no goroutine of
\* the call is running and its readings no longer change; every provider
\* that succeeded, however late, is a contributor of the record.
C28_AggregationAfterEveryTask ==
    /\ [](\A l \in Locations :
            pc[l] = "done" => \A i \in DOMAIN task[l] : task[l][i].st = "done")
    /\ [][ \A l \in Locations :
             /\ JoinStep(l) =>
                   /\ \A i \in DOMAIN task[l] : task[l][i].st = "done"
                   /\ Len(readings[l]) = Cardinality(Succeeded(l))
                   /\ Succeeded(l) # {} =>
                         \A i \in Succeeded(l) :
                            \E j \in DOMAIN GetLatestResult(data', l).value[1].Providers :
                               GetLatestResult(data', l).value[1].Providers[j].ProviderName
                                  = providers[i]
             /\ (pc[l] = "done" /\ pc'[l] = "done") => readings'[l] = readings[l]
       ]_vars

\* a call has stored a record of three contributors whose readings arrived
\* in another order than the providers were started
C28_Witness ==
    \E l \in Locations :
        /\ pc[l] = "done"
        /\ Succeeded(l) = {1, 2, 3}
        /\ readings[l][1].ProviderName = providers[3]
        /\ Len(GetLatestResult(data, l).value[1].Providers) = 3

\* C29: a FetchAndStore call writes at most one record, and only to the
\* history of its own location: the store never holds more writes than calls
\* were made, and a step that changes a history is the join of a call for
\* that location, appends one record to it (the count cap applied) and
\* leaves every other history as it was.
C29_AtMostOneRecordPerCall ==
    /\ [](TotalWrites <= calls)
    /\ [][ \A k \in Keys :
             HistoryOf(data', k) # HistoryOf(data, k) =>
                /\ \E l \in Locations : Key(l) = k /\ JoinStep(l)
                /\ \E rec \in { GetLatestResult(data', CHOOSE l \in Locations : Key(l) = k).value[1] } :
                      HistoryOf(data', k) =
                         EnforceCount(Append(HistoryOf(data, k), rec), maxHistory)
                /\ \A k2 \in Keys \ {k} : HistoryOf(data', k2) = HistoryOf(data, k2)
       ]_vars

\* one call for each location has been made, as in a pass of the scheduler,
\* and each history holds the one record of its call
C29_Witness ==
    /\ calls = 2
    /\ \A l \in Locations : pc[l] = "idle"
    /\ \A k \in Keys : Len(written[k]) = 1 /\ Len(HistoryOf(data, k)) = 1

\* ------------------------------------ one location's cancellation and the
\* other location's fetch

\* the breaker admits a request made now
Admits(b) == BeforeRequest(b).err = "nil"

\* C21: the cancellation of one location's call does not reach another
\* location's call: when the request of a cancelled call returns, the
\* breaker the locations share admits or rejects the next request of the
\* other location as it did before.
C21_CancellationStaysWithItsLocation ==
    [][ \A c \in Locations :
          (DoReturns(c) /\ call[c].ctxDone) => Admits(cb') = Admits(cb) ]_vars

\* --------------------------------------------- properties of GetForecast

\* the number of the calendar day of an instant
DayOf(t) == t \div HoursPerDay

\* the readings of the list rs that lie on day d
OnDay(rs, d) ==
    LET SameDay(r) == DayOf(r.Timestamp) = d IN SelectSeq(rs, SameDay)

\* the readings of day d that the goroutines filed, taken provider by
\* provider from the i-th provider of the order on
RECURSIVE Gathered(_, _, _)
Gathered(order, i, d) ==
    IF i > Len(order) THEN <<>>
    ELSE OnDay(fcTask[order[i]].rs, d) \o Gathered(order, i + 1, d)

\* the days for which some provider returned a reading
DaysPresent ==
    UNION { { DayOf(fcTask[i].rs[j].Timestamp) : j \in DOMAIN fcTask[i].rs } :
              i \in DOMAIN fcTask }

\* the providers whose FetchForecast returned at least one reading
Forecasters == { i \in DOMAIN fcTask : fcTask[i].st = "done" /\ Len(fcTask[i].rs) > 0 }

\* C22: GetForecast(loc, N) with N > 0 and a provider that returned readings
\* yields at most N records in strictly ascending order of their days, one
\* for each of the N earliest days the readings lie on; each is timed at
\* midnight of its day and is the aggregation of all readings of that day.
C22_ForecastIsFirstNDays ==
    (fcPc = "done" /\ days > 0 /\ Forecasters # {}) =>
        /\ forecast.err = "nil"
        /\ \A fc \in { forecast.value } :
           \A present \in { DaysPresent } :
              /\ Len(fc) <= days
              /\ \A i, j \in DOMAIN fc : i < j => fc[i].Timestamp < fc[j].Timestamp
              /\ \A i \in DOMAIN fc : fc[i].Timestamp % HoursPerDay = 0
              /\ { DayOf(fc[i].Timestamp) : i \in DOMAIN fc } =
                    { d \in present : Cardinality({ e \in present : e < d }) < days }
              /\ \A i \in DOMAIN fc :
                    \E order \in IterationOrders(DOMAIN fcTask) :
                    \E s \in AggregateResults(AggLocation,
                                              Gathered(order, 1, DayOf(fc[i].Timestamp)),
                                              now) :
                        fc[i] = [s EXCEPT !.Timestamp = fc[i].Timestamp]

\* two days were asked for and three are in the readings of two providers:
\* the forecast has two records, the first built from both providers
C22_Witness ==
    /\ fcPc = "done" /\ days = 2
    /\ Cardinality(Forecasters) = 2
    /\ forecast.err = "nil"
    /\ Len(forecast.value) = 2
    /\ Cardinality({ forecast.value[1].Providers[j].ProviderName :
                        j \in DOMAIN forecast.value[1].Providers }) = 2
    /\ Cardinality(DaysPresent) = 3

\* C23: GetForecast with days <= 0 returns the invalid-argument error at
\* once, no FetchForecast goroutine started; when no provider returned a
\* reading (none implements ForecastProvider, all failed or all returned
\* empty lists) it returns the not-found error and no list; when some
\* provider returned readings it returns a non-empty forecast, whatever the
\* other providers did.
C23_ForecastErrors ==
    fcPc = "done" =>
        /\ days <= 0 =>
              /\ forecast = [err |-> "days must be greater than zero", value |-> <<>>]
              /\ fcTask = <<>>
              /\ dayReadings = <<>>
        /\ (days > 0 /\ Forecasters = {}) =>
              forecast = [err |-> "no forecast data available", value |-> <<>>]
        /\ (days > 0 /\ Forecasters # {}) =>
              forecast.err = "nil" /\ Len(forecast.value) > 0

\* one provider failed, the other returned readings, and a forecast was
\* returned
C23_Witness ==
    /\ fcPc = "done" /\ days > 0
    /\ \E i, j \in DOMAIN fcTask :
          /\ fcTask[i].err = "ctxErr"
          /\ fcTask[j].err = "nil" /\ Len(fcTask[j].rs) > 0
    /\ forecast.err = "nil"
    /\ Len(forecast.value) > 0

\* ---------------------------------------- properties of the HTTP routes

\* C24: a GET /api/v1/weather/forecast request with city and country is
\* answered 400 Bad Request when days is missing, is no number or is
\* outside 1..7.
C24_ForecastRejectsBadDays ==
    ( /\ response # <<>>
      /\ request.path = ForecastPath
      /\ request.city # "" /\ request.country # ""
      /\ ~(ParseInt(request.days).ok /\ ParseInt(request.days).n \in 1..7) )
    => response[1].status = StatusBadRequest

\* --------------------------------------- properties of the store's mutex

\* the goroutines inside SaveSnapshot, holding the write lock
Writing == { t \in Threads : thread[t].pc \in {"load", "append", "retain", "unlock"} }

\* the goroutines inside GetLatest or GetRange, holding the read lock
Reading == { t \in Threads : thread[t].pc \in {"read", "runlock"} }

\* the goroutines whose SaveSnapshot has assigned the appended slice
Saved ==
    { t \in Threads : thread[t].op = "SaveSnapshot"
                      /\ thread[t].pc \in {"retain", "unlock", "done"} }

\* C25: the store operations are atomic under every interleaving.  At most
\* one goroutine is inside SaveSnapshot and none is reading meanwhile; what
\* a reader returns is never longer than the count cap; and between writes
\* no write is lost: the history is the last min(n, cap) of the n snapshots
\* saved, all n of them without a cap, in the order the writers ran.
C25_StoreOperationsAreAtomic ==
    /\ Cardinality(Writing) <= 1
    /\ Writing # {} => Reading = {}
    /\ \A t \in Threads :
          (thread[t].result # <<>> /\ maxHistory > 0) =>
              Len(thread[t].result.value) <= maxHistory
    /\ Writing = {} =>
          LET h == HistoryOf(data, Key(AggLocation))
              w == written[Key(AggLocation)]
          IN /\ Len(w) = Cardinality(Saved)
             /\ { w[i] : i \in DOMAIN w } = { SnapshotOf(t) : t \in Saved }
             /\ h = IF maxHistory = 0 THEN w ELSE LastN(w, Min(Len(w), maxHistory))

\* without a cap two goroutines have saved and a third has read in between:
\* the history holds both snapshots and the reader returned the first
C25_Witness ==
    /\ maxHistory = 0
    /\ \A t \in Threads : thread[t].pc = "done"
    /\ Cardinality(Saved) = 2
    /\ Len(HistoryOf(data, Key(AggLocation))) = 2
    /\ \E t \in Threads :
          /\ thread[t].op = "GetRange"
          /\ thread[t].result.err = "nil"
          /\ thread[t].result.value = <<data[Key(AggLocation)][1]>>

\* ------------------------------------------ properties of the contributors

\* the step in which the goroutine of provider i of the call for l finishes
TaskStep(l, i) ==
    /\ i \in DOMAIN task[l]
    /\ task[l][i].st = "fetching"
    /\ task'[l][i].st = "done"

\* the source ids of a contributor list, in order
SourceIds(ps) == [j \in DOMAIN ps |-> ps[j].ProviderName]

\* C31: the contributor list of the stored record has one entry per reading
\* collected, with that reading's source id and timestamp, in the order of
\* the readings; and that order is the order in which the goroutines
\* finished: a goroutine that succeeds puts its reading behind the readings
\* of those that succeeded before it, whatever its place in the provider list.
C31_ContributorsInAppendOrder ==
    [][ \A l \in Locations :
          /\ (JoinStep(l) /\ Len(readings[l]) > 0) =>
                \A rec \in { GetLatestResult(data', l).value[1] } :
                   /\ Len(rec.Providers) = Len(readings[l])
                   /\ \A j \in DOMAIN readings[l] :
                         /\ rec.Providers[j].ProviderName = readings[l][j].ProviderName
                         /\ rec.Providers[j].Timestamp = readings[l][j].Timestamp
          /\ \A i \in DOMAIN ProviderNames :
                (TaskStep(l, i) /\ task'[l][i].err = "nil") =>
                    /\ Len(readings'[l]) = Len(readings[l]) + 1
                    /\ SubSeq(readings'[l], 1, Len(readings[l])) = readings[l]
                    /\ readings'[l][Len(readings'[l])].ProviderName = providers[i]
      ]_vars

\* the three providers finished in the reverse of their configured order and
\* the stored record lists them so
C31_Witness ==
    \E l \in Locations :
        /\ pc[l] = "done"
        /\ providers = ProviderNames
        /\ Succeeded(l) = DOMAIN task[l]
        /\ GetLatestResult(data, l).err = "nil"
        /\ SourceIds(GetLatestResult(data, l).value[1].Providers)
              = <<"openmeteo", "weatherapi", "openweather">>

\* C32: AggregateReadings on an empty reading list returns a placeholder:
\* the location it was given, the time of the aggregation as timestamp,
\* condition unknown, every numeric field zero and no contributor.
C32_EmptyListGivesPlaceholder ==
    (aggIn = <<>> /\ aggOut # <<>>) =>
        /\ Len(aggOut) = 1
        /\ aggOut[1].Location = AggLocation
        /\ aggOut[1].Timestamp = now
        /\ aggOut[1].Condition = ConditionUnknown
        /\ \A f \in NumericFields : aggOut[1][f[1]][1] = 0
        /\ Len(aggOut[1].Providers) = 0

\* the empty list has been aggregated
C32_Witness == aggIn = <<>> /\ aggOut # <<>> /\ aggOut[1].Condition = ConditionUnknown

\* ------------------------------------- properties of the configuration check

\* a step in which doRequestWithResilience is called
InvokeStep == resCalls' = resCalls + 1

\* the configuration fails a check at the head of the function
InvalidConfig(c) ==
    ~c.Client \/ c.Backoff.MaxRetries < 0 \/ Rank(c.Backoff.InitialInterval) <= 0

\* C33: with an invalid configuration a call returns a configuration error
\* in the step it is made: it never reaches the retry loop, where the
\* request factory is called, it sends no request, waits for no backoff and
\* leaves the breaker and the other calls as they are.
C33_InvalidConfigFailsAtOnce ==
    /\ [][ (InvokeStep /\ InvalidConfig(cfg)) =>
              /\ cb' = cb
              /\ \E c \in Locations :
                    /\ \A o \in Locations \ {c} : call'[o] = call[o]
                    /\ call'[c].pc = "done"
                    /\ call'[c].ret \in {"errNoHTTPClient", "errInvalidConfig"}
                    /\ call'[c].requests = 0
                    /\ call'[c].attempt = 0
                    /\ call'[c].waits = <<>>
         ]_vars
    /\ [](InvalidConfig(cfg) =>
             \A c \in Locations :
                 /\ call[c].pc \in {"idle", "done"}
                 /\ call[c].requests = 0)

\* calls with a negative MaxRetries have returned the configuration error and
\* the breaker has its five failures still
C33_Witness ==
    /\ cfg.Backoff.MaxRetries < 0
    /\ resCalls = MaxResCalls
    /\ \E c \in Locations : call[c].pc = "done" /\ call[c].ret = "errInvalidConfig"
    /\ cb.state = StateClosed /\ cb.failures = DefaultTripThreshold

\* ------------------------------------ properties of a call with a deadline

\* the goroutines of the call that have not finished
Running == { i \in DOMAIN task[SingleCaller] : task[SingleCaller][i].st = "fetching" }

\* C34: a FetchAndStore call under a context with a deadline returns: every
\* provider goroutine finishes once the deadline has passed, whether it was
\* in an HTTP attempt or in a backoff wait, so wg.Wait returns; and when the
\* call has returned no goroutine of it is running.
C34_CallWithDeadlineReturns ==
    /\ (pc[SingleCaller] = "wait") ~> (pc[SingleCaller] = "done")
    /\ \A i \in DOMAIN ProviderNames :
          (i \in DOMAIN call /\ call[i].ctxDone) ~> (i \notin Running)
    /\ [](pc[SingleCaller] = "done" => Running = {})

\* the deadline passed while one provider was in an HTTP attempt and the
\* other in a backoff wait, and the call has returned
C34_Witness ==
    /\ pc[SingleCaller] = "done"
    /\ Len(providers) = 2
    /\ \A i \in DOMAIN call : call[i].ctxDone
    /\ call[1].ret = "ctxErr" /\ call[1].requests = 1 /\ call[1].lastErr = "ctxErr"
    /\ call[2].ret = "ctxErr" /\ call[2].requests = 1 /\ call[2].lastErr = "errServerError"

\* ------------------------------------------- the record just written

AttemptFails(c) ==
    /\ DoReturns(c)
    /\ ~(call'[c].pc = "done" /\ call'[c].ret = "resp")

\* the breaker after the step has one failure more than before it: one more
\* consecutive failure, or the trip to open that the failure caused
OneFailureMore ==
    LET s == CurrentState(cb)
    IN \/ s.state = StateClosed /\ cb'.state = StateClosed
                                /\ cb'.failures = s.failures + 1
       \/ s.state = StateClosed /\ s.failures = DefaultTripThreshold
                                /\ cb'.state = StateOpen
       \/ s.state = StateHalfOpen /\ cb'.state = StateOpen

\* the request of c that returns was admitted in the generation the breaker
\* is in when it returns
SameGeneration(c) == call[c].before = CurrentState(cb).generation

\* C36 as stated: every attempt that fails counts as one failure of the
\* breaker.
C36_EveryFailedAttemptCounts ==
    [][\A c \in Locations : AttemptFails(c) => OneFailureMore]_vars

\* C36: every attempt of a call, the first and each retry, is admitted by the
\* breaker on its own, and its failure counts as one failure of the breaker
\* when the breaker is still in the generation that admitted it; a failure
\* that arrives after the breaker started a new generation (it tripped or
\* its interval ended meanwhile) leaves the breaker as it is.  A retrying
\* call whose next attempt finds the breaker open, or half-open with its
\* trial requests used up, returns the circuit-open error in that step under
\* a live context: no request, no further retry, not its last remote failure.
C36_RetriesPassThroughBreaker ==
    [][\A c \in Locations :
          /\ (LeavesLoopHead(c) /\ call'[c].pc = "do") =>
                /\ BeforeRequest(cb).err = "nil"
                /\ call'[c].requests = call[c].requests + 1
          /\ (AttemptFails(c) /\ SameGeneration(c)) => OneFailureMore
          /\ (AttemptFails(c) /\ ~SameGeneration(c)) => cb' = Renumber(CurrentState(cb))
          /\ ( /\ LeavesLoopHead(c)
               /\ call[c].attempt > 0
               /\ ~call[c].ctxDone
               /\ BeforeRequest(cb).err # "nil" ) =>
                /\ call'[c].pc = "done"
                /\ call'[c].ret = "errCircuitOpen"
                /\ call'[c].ret # call[c].lastErr
                /\ call'[c].requests = call[c].requests
                /\ call'[c].attempt = call[c].attempt
                /\ call'[c].waits = call[c].waits
    ]_vars

\* the first attempt of a call tripped the breaker, and its retry was
\* rejected with retries left and no second request
C36_Witness ==
    \E c \in Locations :
        /\ Returned(c)
        /\ call[c].ret = "errCircuitOpen"
        /\ call[c].attempt = 1
        /\ call[c].attempt < cfg.Backoff.MaxRetries
        /\ call[c].requests = 1
        /\ call[c].lastErr \in RetryableFailures
        /\ ~call[c].ctxDone
        /\ cb.state = StateOpen

\* --------------------------------------------- what a store call changes

\* the step is a SaveSnapshot call
SaveStep == ret.op = "none" /\ ret'.op = "SaveSnapshot"

\* C37: a SaveSnapshot for one location leaves the history of every other
\* location as it was, expired records included; every other step, of
\* GetLatest, GetRange, GetForecast or the clock, leaves the whole store as
\* it was.
C37_OnlyTheWrittenHistoryChanges ==
    [][ /\ SaveStep =>
              /\ \A l \in Locations \ {ret'.loc} :
                    /\ HistoryOf(data', Key(l)) = HistoryOf(data, Key(l))
                    /\ Key(l) \in DOMAIN data' <=> Key(l) \in DOMAIN data
              /\ maxHistory' = maxHistory /\ maxAge' = maxAge
        /\ ~SaveStep =>
              /\ data' = data
              /\ maxHistory' = maxHistory /\ maxAge' = maxAge
      ]_vars

\* a record was written for one location while the history of the other
\* began with an expired record, which is still there
C37_Witness ==
    /\ ret.op = "SaveSnapshot"
    /\ maxAge > 0
    /\ \E l \in Locations \ {ret.loc} :
          /\ Len(HistoryOf(data, Key(l))) = 2
          /\ data[Key(l)][1].Timestamp < now - maxAge

\* ------------------------------------------------ properties of the key

\* C38: the key separates places: a location that is written to shares its
\* key with no location of another City or Country, and what GetLatest or
\* GetRange returns for a location are records written for that location.
C38_KeySeparatesPlaces ==
    /\ ret.op = "SaveSnapshot" =>
          \A l \in Places \ {ret.loc} : Key(l) # Key(ret.loc)
    /\ (ret.op \in {"GetLatest", "GetRange"} /\ ret.err = "nil") =>
          \A i \in DOMAIN ret.value : ret.value[i].Location = ret.loc

\* ------------------------------------- properties of the providers' breakers

\* the breaker of a provider admits no request
Rejects(name) == BeforeRequest(cb[name]).err # "nil"

\* the provider whose method makes call k
Owner(k) == SharedCalls[k].provider

\* C39: the breaker is one per provider.  A step of a call changes the
\* breaker of its own provider only, and a call is rejected as circuit-open
\* only when the breaker of its own provider rejects; the calls of one
\* provider, Fetch and FetchForecast alike, share its breaker: a failure of
\* either counts on it, and once it rejects, the next attempt of either
\* returns the circuit-open error.
C39_OneBreakerPerProvider ==
    [][\A k \in DOMAIN SharedCalls :
          /\ (call'[k] # call[k] /\ call[k].before = call'[k].before) =>
                \A name \in DOMAIN cb \ {Owner(k)} : cb'[name] = cb[name]
          /\ (LeavesLoopHead(k) /\ call'[k].ret = "errCircuitOpen") => Rejects(Owner(k))
          /\ (LeavesLoopHead(k) /\ Rejects(Owner(k))) =>
                /\ call'[k].pc = "done"
                /\ call'[k].ret = "errCircuitOpen"
          /\ (AttemptFails(k) /\ call[k].before = 0) =>
                \/ cb'[Owner(k)].failures = cb[Owner(k)].failures + 1
                \/ cb'[Owner(k)].state = StateOpen
    ]_vars

\* the failures of openweather's Fetch and FetchForecast together opened
\* openweather's breaker, which rejected a retry; weatherapi's Fetch made a
\* request meanwhile and got its response
C39_Witness ==
    /\ cb["openweather"].state = StateOpen
    /\ cb["weatherapi"].state = StateClosed
    /\ call[1].requests = 1 /\ call[2].requests = 1
    /\ call[1].lastErr \in RetryableFailures /\ call[2].lastErr \in RetryableFailures
    /\ \E k \in {1, 2} : call[k].pc = "done" /\ call[k].ret = "errCircuitOpen"
    /\ call[3].pc = "done" /\ call[3].ret = "resp"

====
